---- MODULE Spec2Model ----
(***************************************************************************)
(* A model of the two LLM workflows of migrate.ai:                         *)
(*   - the document evaluation graph  (src/graph/evaluation_graph.py)      *)
(*   - the proposal generation graph  (src/graph/proposal_generation_graph.py) *)
(* and of the pure functions they are built from (routing functions,       *)
(* state reducers).                                                        *)
(*                                                                         *)
(* The graph engine itself (langgraph) is not part of the repository.  It  *)
(* is modelled by what the graph definitions rely on: a run proceeds in    *)
(* steps; every node of a step reads the state as it was when the step     *)
(* began, its returned update is merged into the state field by field with *)
(* the field's reducer, and the nodes its edges name form the next step.   *)
(* A run ends when a step names no node, and graph.invoke hands back the   *)
(* final state as a mapping of the field values (the form the reads by key *)
(* in evaluate_document are written for).  Two things the graph definitions*)
(* leave to the engine are kept open and chosen when a proposal run        *)
(* starts (Engines): whether the state object handed to a node or router   *)
(* is checked against the declared field types, and whether that object    *)
(* shares its lists with the run's state.                                  *)
(*                                                                         *)
(* What an LLM call answers is the environment's choice: each node action  *)
(* draws the outcome of its call from a small set.  Confidence scores are  *)
(* kept in tenths (0.5 is 5).                                              *)
(***************************************************************************)
EXTENDS Integers, Sequences, FiniteSets, TLC

VARIABLES
    ev,     \* the evaluation workflow: one evaluate_document invocation
    rt,     \* a call of route_after_phase_extraction: its argument and result
    pr,     \* the proposal workflow: one generate_proposal invocation
    fn      \* a call of a helper function: its arguments and its result

vars == <<ev, rt, pr, fn>>

(***************************************************************************)
(* Python values                                                           *)
(***************************************************************************)
\* Optional[T] for a record-valued T: None is <<>>, a value x is <<x>>.
None == <<>>
Some(x) == <<x>>
\* The error field holds None or a message, kept as <<text, detail>>.
NoError == None

SeqToSet(s) == {s[i] : i \in 1..Len(s)}
MinOf(S) == CHOOSE x \in S : \A y \in S : x <= y

(***************************************************************************)
(* src/models/evaluation.py                                                *)
(***************************************************************************)
STRATEGISE_AND_PLAN == "strategise_and_plan"
MIGRATE_AND_MODERNISE == "migrate_and_modernise"
MANAGE_AND_OPTIMISE == "manage_and_optimise"
\* The enum in declaration order (iteration order of `for stage in MigrationPhase`).
MigrationPhase == <<STRATEGISE_AND_PLAN, MIGRATE_AND_MODERNISE, MANAGE_AND_OPTIMISE>>
Phases == SeqToSet(MigrationPhase)

NoRelevantContent == "No relevant content identified"

\* The attributes a SpecCompliance object has (pydantic drops undeclared keywords).
SpecComplianceFields ==
    {"overall_compliance_score", "missing_elements", "compliance_strengths",
     "improvement_areas", "recommendations"}

\* Reducers of the annotated GraphState fields.
\* A faulty variant of add_to_list: the new elements are put first.
add_to_list_prepend(existing, new) == new \o existing

add_to_list(existing, new) ==
    (IF existing = None THEN <<>> ELSE existing) \o (IF new = None THEN <<>> ELSE new)

keep_latest(existing, new) == IF new # None THEN new ELSE existing

\* A faulty variant of keep_first_error: a later error replaces the first.
keep_last_error(existing, new) == IF new # NoError THEN new ELSE existing

keep_first_error(existing, new) == IF existing # NoError THEN existing ELSE new

\* A field without a reducer: the written value replaces the old one.
last_value(existing, new) == IF new # None THEN new ELSE existing

\* GraphState() with its defaults.
GraphState(parsed_document) ==
    [parsed_document   |-> parsed_document,
     phase_contents    |-> <<>>,
     phase_evaluations |-> <<>>,
     spec_compliance   |-> None,
     gaps              |-> <<>>,
     recommendations   |-> <<>>,
     evaluation_result |-> None,
     error             |-> NoError]

\* A node's returned dict: a key that is absent is None / <<>> / NoError here.
NoUpdate == GraphState(None)

\* The merge of a node's update into the state, field by field.
MergeUpdate(s, u) ==
    [parsed_document   |-> keep_latest(s.parsed_document, u.parsed_document),
     phase_contents    |-> add_to_list(s.phase_contents, u.phase_contents),
     phase_evaluations |-> add_to_list(s.phase_evaluations, u.phase_evaluations),
     spec_compliance   |-> last_value(s.spec_compliance, u.spec_compliance),
     gaps              |-> add_to_list(s.gaps, u.gaps),
     recommendations   |-> add_to_list(s.recommendations, u.recommendations),
     evaluation_result |-> last_value(s.evaluation_result, u.evaluation_result),
     error             |-> keep_first_error(s.error, u.error)]

(***************************************************************************)
(* src/graph/evaluation_graph.py: routing after phase extraction           *)
(***************************************************************************)
Threshold == 5

\* A faulty variant of should_evaluate_phase: a score equal to the threshold
\* passes.
should_evaluate_phase_inclusive(state, phase) ==
    LET pcs == state.phase_contents
        idx == {i \in 1..Len(pcs) : pcs[i].phase = phase}
    IN  IF idx = {} THEN FALSE
        ELSE LET pc == pcs[MinOf(idx)]
             IN  pc.confidence_score >= Threshold
                 /\ pc.relevant_content # NoRelevantContent

should_evaluate_phase(state, phase) ==
    LET pcs == state.phase_contents
        idx == {i \in 1..Len(pcs) : pcs[i].phase = phase}
    IN  IF idx = {} THEN FALSE
        ELSE LET pc == pcs[MinOf(idx)]
             IN  pc.confidence_score > Threshold
                 /\ pc.relevant_content # NoRelevantContent

EvaluatorOf(phase) ==
    CASE phase = STRATEGISE_AND_PLAN   -> "strategise_and_plan_evaluator"
      [] phase = MIGRATE_AND_MODERNISE -> "migrate_and_modernise_evaluator"
      [] OTHER                         -> "manage_and_optimise_evaluator"

\* The loop of lines 58-63: the first phase content whose score exceeds every
\* earlier one and 0; "None" when there is no such content.
RECURSIVE BestPhase(_, _, _, _)
BestPhase(pcs, i, best_score, best_phase) ==
    IF i > Len(pcs) THEN best_phase
    ELSE IF pcs[i].confidence_score > best_score
         THEN BestPhase(pcs, i + 1, pcs[i].confidence_score, pcs[i].phase)
         ELSE BestPhase(pcs, i + 1, best_score, best_phase)

\* A faulty variant of route_after_phase_extraction: lines 55-72 left out.
route_without_fallback(state) ==
    (IF should_evaluate_phase(state, STRATEGISE_AND_PLAN)
        THEN <<"strategise_and_plan_evaluator">> ELSE <<>>)
 \o (IF should_evaluate_phase(state, MIGRATE_AND_MODERNISE)
        THEN <<"migrate_and_modernise_evaluator">> ELSE <<>>)
 \o (IF should_evaluate_phase(state, MANAGE_AND_OPTIMISE)
        THEN <<"manage_and_optimise_evaluator">> ELSE <<>>)

route_after_phase_extraction(state) ==
    LET next_nodes ==
            (IF should_evaluate_phase(state, STRATEGISE_AND_PLAN)
                THEN <<"strategise_and_plan_evaluator">> ELSE <<>>)
         \o (IF should_evaluate_phase(state, MIGRATE_AND_MODERNISE)
                THEN <<"migrate_and_modernise_evaluator">> ELSE <<>>)
         \o (IF should_evaluate_phase(state, MANAGE_AND_OPTIMISE)
                THEN <<"manage_and_optimise_evaluator">> ELSE <<>>)
    IN  IF next_nodes = <<>>
        THEN <<EvaluatorOf(BestPhase(state.phase_contents, 1, 0, "None"))>>
        ELSE next_nodes

(***************************************************************************)
(* The evaluation nodes (src/agents/*.py).  Each operator is the node      *)
(* function: from the state it is handed and the answer of its LLM call it *)
(* gives the update it returns and the state object as the call leaves it  *)
(* ("incoming": Python hands the node a reference, so an in-place change   *)
(* would show there).                                                      *)
(***************************************************************************)
LLMOutcomes == {"ok", "raise"}

NodeResult(update, incoming) == [update |-> update, incoming |-> incoming]

ErrorUpdate(text, detail) == [NoUpdate EXCEPT !.error = <<text, detail>>]

\* ParsedDocument is kept as the set of its metadata keys.
ParsedDocument(metadata) == Some([metadata |-> metadata])
MetadataOf(state) == state.parsed_document[1].metadata

\* A faulty variant of metadata.copy(): the state's own dict is returned.
metadata_alias(metadata) == [shared |-> TRUE, keys |-> metadata]

\* state.parsed_document.metadata.copy(): a new dict, not shared with the state.
metadata_copy(metadata) == [shared |-> FALSE, keys |-> metadata]

\* The state object after `new_metadata[k] = ...` for the keys ks.
AfterStore(state, new_metadata, ks) ==
    IF new_metadata.shared
    THEN [state EXCEPT !.parsed_document = ParsedDocument(new_metadata.keys \cup ks)]
    ELSE state

\* The tail shared by the node wrappers: copy the metadata, add keys, and
\* return a new ParsedDocument beside the node's own field.
WithMetadata(state, update, ks) ==
    IF state.parsed_document # None
    THEN LET new_metadata == metadata_copy(MetadataOf(state))
         IN  NodeResult(
                 [update EXCEPT !.parsed_document =
                                    ParsedDocument(new_metadata.keys \cup ks)],
                 AfterStore(state, new_metadata, ks))
    ELSE NodeResult(update, state)

\* ---- parse_input_doc.py
ParseInputDocAgent(state, llm) ==
    IF state.parsed_document = None
    THEN ErrorUpdate("No parsed document found in state", "parse_input_doc")
    ELSE IF llm = "raise"
    THEN ErrorUpdate("Error in ParseInputDoc agent", "parse_input_doc")
    ELSE [NoUpdate EXCEPT !.parsed_document =
              ParsedDocument(MetadataOf(state) \cup
                  {"key_themes", "document_purpose", "migration_indicators",
                   "quality_assessment"})]

parse_input_doc_node(state, llm) ==
    NodeResult(ParseInputDocAgent(state, llm), state)

\* ---- extract_intent_and_phases.py
\* The LLM's analysis: the stage entries in JSON key order.  relevant_content
\* is MissingKey when the entry has no such key; a confidence_score outside
\* 0..10 (tenths) is rejected by PhaseContent.
MissingKey == "<missing>"

PhaseContent(phase, relevant_content, confidence_score) ==
    [phase |-> phase, relevant_content |-> relevant_content,
     confidence_score |-> confidence_score]

RECURSIVE ConvertStages(_, _)
ConvertStages(analysis, i) ==
    IF i > Len(analysis) THEN <<>>
    ELSE LET e == analysis[i]
             accepted == /\ e.stage \in Phases
                         /\ e.relevant_content # MissingKey
                         /\ e.confidence_score \in 0..10
         IN  (IF accepted
              THEN <<PhaseContent(e.stage, e.relevant_content, e.confidence_score)>>
              ELSE <<>>)
             \o ConvertStages(analysis, i + 1)

\* A faulty variant of lines 134-160: the loop that adds the stages not yet
\* represented is left out.
PhaseContentsOf_unfilled(analysis) == ConvertStages(analysis, 1)

PhaseContentsOf(analysis) ==
    LET converted == ConvertStages(analysis, 1)
        existing_stages == {converted[i].phase : i \in 1..Len(converted)}
        absent == SelectSeq(MigrationPhase, LAMBDA p : p \notin existing_stages)
    IN  converted \o
        [i \in 1..Len(absent) |-> PhaseContent(absent[i], NoRelevantContent, 0)]

IntentAndPhaseExtractor(state, llm, analysis) ==
    IF state.parsed_document = None
    THEN ErrorUpdate("No parsed document found in state", "extract_intent_and_phases")
    ELSE IF llm = "raise"
    THEN ErrorUpdate("Error in ExtractIntentAndPhases agent", "extract_intent_and_phases")
    ELSE [NoUpdate EXCEPT !.phase_contents = PhaseContentsOf(analysis)]

extract_intent_and_phases_node(state, llm, analysis) ==
    LET result == IntentAndPhaseExtractor(state, llm, analysis)
    IN  IF result.error # NoError
        THEN NodeResult(result, state)
        ELSE WithMetadata(state, result, {"overall_analysis"})

\* ---- phase_evaluator.py
PhaseEvaluation(phase) == [phase |-> phase]

PhaseEvaluatorAgent(state, phase, llm) ==
    IF \A i \in 1..Len(state.phase_contents) : state.phase_contents[i].phase # phase
    THEN ErrorUpdate("No content found for phase", phase)
    ELSE IF llm = "raise"
    THEN ErrorUpdate("Error evaluating phase", phase)
    ELSE [NoUpdate EXCEPT !.phase_evaluations = <<PhaseEvaluation(phase)>>]

phase_evaluator_node(state, phase, llm) ==
    NodeResult(PhaseEvaluatorAgent(state, phase, llm), state)

\* ---- spec_checker.py
SpecCompliance == Some([attrs |-> SpecComplianceFields])

SpecCheckerAgent(state, llm) ==
    IF state.parsed_document = None
    THEN ErrorUpdate("No parsed document found in state", "spec_checker")
    ELSE IF llm = "raise"
    THEN ErrorUpdate("Error in SpecChecker agent", "spec_checker")
    ELSE [NoUpdate EXCEPT !.spec_compliance = SpecCompliance]

spec_checker_node(state, llm) ==
    LET result == SpecCheckerAgent(state, llm)
    IN  IF result.error # NoError
        THEN NodeResult(result, state)
        ELSE WithMetadata(state, result, {"red_flags", "compliance_analysis"})

\* ---- gap_highlighter.py
\* The prompt arguments read spec_compliance.compliant_areas and
\* .non_compliant_areas before the LLM is called (line 95).
GapHighlighterAgent(state, llm, gaps) ==
    IF state.spec_compliance = None \/ state.phase_evaluations = <<>>
    THEN ErrorUpdate("Missing evaluation data for gap analysis", "gap_highlighter")
    ELSE IF ~({"compliant_areas", "non_compliant_areas"}
                  \subseteq state.spec_compliance[1].attrs)
    THEN ErrorUpdate("Error in GapHighlighter agent", "gap_highlighter")
    ELSE IF llm = "raise"
    THEN ErrorUpdate("Error in GapHighlighter agent", "gap_highlighter")
    ELSE [NoUpdate EXCEPT !.gaps = gaps]

gap_highlighter_node(state, llm, gaps) ==
    LET result == GapHighlighterAgent(state, llm, gaps)
    IN  IF result.error # NoError
        THEN NodeResult(result, state)
        ELSE WithMetadata(state, result, {"gap_summary", "priority_gaps"})

\* ---- recommendations_generator.py
\* The prompt arguments read spec_compliance.non_compliant_areas (line 104).
RecommendationsGeneratorAgent(state, llm, recs) ==
    IF state.gaps = <<>> \/ state.spec_compliance = None
    THEN ErrorUpdate("Missing gap analysis or compliance data for recommendations",
                     "recommendations_generator")
    ELSE IF ~({"non_compliant_areas", "missing_elements", "overall_compliance_score"}
                  \subseteq state.spec_compliance[1].attrs)
    THEN ErrorUpdate("Error in RecommendationsGenerator agent", "recommendations_generator")
    ELSE IF llm = "raise"
    THEN ErrorUpdate("Error in RecommendationsGenerator agent", "recommendations_generator")
    ELSE [NoUpdate EXCEPT !.recommendations = recs]

recommendations_generator_node(state, llm, recs) ==
    LET result == RecommendationsGeneratorAgent(state, llm, recs)
    IN  IF result.error # NoError
        THEN NodeResult(result, state)
        ELSE WithMetadata(state, result, {"summary"})

\* ---- scoring_node.py
\* EvaluationResult declares recommendations as Optional[Recommendations]; the
\* value must be None, a Recommendations object or a mapping.
EvaluationResultAccepts(kind) == kind \in {"None", "Recommendations", "dict"}

ScoringNodeAgent(state, llm) ==
    IF state.phase_evaluations = <<>> \/ state.spec_compliance = None
    THEN ErrorUpdate("Missing evaluation data for scoring", "scoring")
    ELSE IF llm = "raise"
    THEN ErrorUpdate("Error in ScoringNode agent", "scoring")
    \* recommendations=state.recommendations: the state's list is passed.
    ELSE IF ~EvaluationResultAccepts("list")
    THEN ErrorUpdate("Error in ScoringNode agent", "scoring")
    ELSE [NoUpdate EXCEPT !.evaluation_result =
              Some([phase_evaluations |-> state.phase_evaluations])]

scoring_node(state, llm) ==
    LET result == ScoringNodeAgent(state, llm)
    IN  IF result.error # NoError
        THEN NodeResult(result, state)
        ELSE WithMetadata(state, result,
                 {"final_summary", "key_strengths", "critical_areas",
                  "strategic_insights", "readiness_level"})

(***************************************************************************)
(* src/graph/evaluation_graph.py: the graph and evaluate_document          *)
(***************************************************************************)
Evaluators ==
    {"strategise_and_plan_evaluator", "migrate_and_modernise_evaluator",
     "manage_and_optimise_evaluator"}

PhaseOfEvaluator(n) ==
    CASE n = "strategise_and_plan_evaluator"   -> STRATEGISE_AND_PLAN
      [] n = "migrate_and_modernise_evaluator" -> MIGRATE_AND_MODERNISE
      [] n = "manage_and_optimise_evaluator"   -> MANAGE_AND_OPTIMISE

\* A faulty variant of create_evaluation_graph: the strategise evaluator's
\* edge leads to the next evaluator instead of spec_checker, so spec_checker
\* is started in two different steps.
EvaluationEdges_chained(n, state) ==
    CASE n = "parse_input_doc"           -> {"extract_intent_and_phases"}
      [] n = "extract_intent_and_phases" -> SeqToSet(route_after_phase_extraction(state))
      [] n = "strategise_and_plan_evaluator" -> {"manage_and_optimise_evaluator"}
      [] n \in Evaluators                -> {"spec_checker"}
      [] n = "spec_checker"              -> {"gap_highlighter"}
      [] n = "gap_highlighter"           -> {"recommendations_generator"}
      [] n = "recommendations_generator" -> {"scoring"}
      [] n = "scoring"                   -> {}

\* create_evaluation_graph: the nodes that follow node n; `state` is what the
\* conditional edge's routing function is handed.
EvaluationEdges(n, state) ==
    CASE n = "parse_input_doc"           -> {"extract_intent_and_phases"}
      [] n = "extract_intent_and_phases" -> SeqToSet(route_after_phase_extraction(state))
      [] n \in Evaluators                -> {"spec_checker"}
      [] n = "spec_checker"              -> {"gap_highlighter"}
      [] n = "gap_highlighter"           -> {"recommendations_generator"}
      [] n = "recommendations_generator" -> {"scoring"}
      [] n = "scoring"                   -> {}

_extract_partial_results(state) ==
    [document_parsed           |-> state.parsed_document # None,
     phase_contents_extracted  |-> Len(state.phase_contents),
     phases_evaluated          |-> Len(state.phase_evaluations),
     compliance_checked        |-> state.spec_compliance # None,
     gaps_identified           |-> Len(state.gaps),
     recommendations_generated |-> Len(state.recommendations)]

\* src/utils/document_parser.py: parse_document by the file name's extension
\* and by whether the format's reader can read the content.
SupportedExtensions == {".pdf", ".docx", ".txt", ".xlsx"}
Extensions == SupportedExtensions \cup {".csv"}
Files == [extension : Extensions, readable : BOOLEAN]

ValueError(message) == [raised |-> TRUE, message |-> message, document |-> None]
Parsed(document) == [raised |-> FALSE, message |-> "", document |-> document]

parse_document(file) ==
    IF file.extension \notin SupportedExtensions
    THEN ValueError("Unsupported file format")
    ELSE IF ~file.readable
    THEN ValueError("Error parsing")
    ELSE Parsed(ParsedDocument({"filename"}))

\* What a call of evaluate_document gives its caller: the returned dictionary,
\* or raised = TRUE when an exception leaves the call.
NoResult ==
    [raised |-> FALSE, success |-> FALSE, error |-> NoError, partial_results |-> None,
     evaluation_result |-> None, phases_evaluated |-> 0]

\* A faulty variant of evaluate_document: evaluation_result is looked at
\* before error.
EvaluationOutcome_result_first(final_state) ==
    IF final_state.evaluation_result # None
    THEN [NoResult EXCEPT !.success = TRUE,
                          !.evaluation_result = final_state.evaluation_result,
                          !.phases_evaluated = Len(final_state.phase_evaluations)]
    ELSE [NoResult EXCEPT !.error = final_state.error,
                          !.partial_results = Some(_extract_partial_results(final_state))]

\* evaluate_document, lines 153-192: the returned dictionary for a final state.
\* Each field is read by attribute or else by key; graph.invoke hands back a
\* mapping of the field values, and the value read by key is the one kept.
EvaluationOutcome(final_state) ==
    IF final_state.error # NoError
    THEN [NoResult EXCEPT !.error = final_state.error,
                          !.partial_results = Some(_extract_partial_results(final_state))]
    ELSE IF final_state.evaluation_result # None
    THEN [NoResult EXCEPT !.success = TRUE,
                          !.evaluation_result = final_state.evaluation_result,
                          !.phases_evaluated = Len(final_state.phase_evaluations)]
    ELSE [NoResult EXCEPT !.error = <<"Evaluation completed but no results generated", "">>,
                          !.partial_results = Some(_extract_partial_results(final_state))]

\* evaluate_document, lines 194-199: an exception that escaped.
EvaluationFailed ==
    [NoResult EXCEPT !.error = <<"Evaluation failed", "">>]

\* An exception raised inside evaluate_document's try block.
Escaped == [NoResult EXCEPT !.raised = TRUE]

\* A faulty variant of evaluate_document: the body without its try statement.
evaluate_document_unguarded(outcome) == outcome

\* evaluate_document, lines 143-199: the body's outcome behind
\* `except Exception`.
evaluate_document(outcome) ==
    IF outcome.raised THEN EvaluationFailed ELSE outcome

\* What the LLM may answer to the phase extraction prompt.
StageEntries(Conf, Contents) ==
    [stage : Phases, relevant_content : Contents, confidence_score : Conf]

Analyses(Conf, Contents) ==
    {a \in UNION {[1..n -> StageEntries(Conf, Contents)] : n \in 0..Cardinality(Phases)} :
        \A i, j \in 1..Len(a) : i # j => a[i].stage # a[j].stage}

WorkflowAnalyses == Analyses({2, 8}, {"content", NoRelevantContent})

(***************************************************************************)
(* src/models/proposal_generation.py, src/agents (proposal nodes)          *)
(*                                                                         *)
(* Values are kept by kind.  An empty collection or mapping is "none".     *)
(*   migration_strategies          "str": application name -> strategy     *)
(*                                 string; "enum": the same with            *)
(*                                 MigrationStrategy members                *)
(*   architecture_recommendations  "dict_plain", "dict_complex": the JSON   *)
(*                                 object of the prompt, without or with a  *)
(*                                 complex pattern; "list": a JSON array;   *)
(*                                 "objects": ArchitectureRecommendation    *)
(*                                 instances                                *)
(* A node's update is the dictionary it returns: a record whose domain is  *)
(* the set of keys written.                                                *)
(***************************************************************************)
\* ProposalState(discovery_input=..., feedback_loops=[], version=1)
ProposalState ==
    [discovery_input              |-> "input",
     workload_classification      |-> "none",
     classified_workloads         |-> "none",
     migration_waves              |-> "none",
     migration_strategies         |-> "none",
     architecture_recommendations |-> "none",
     proposal_sections            |-> "none",
     overview_content             |-> "unset",
     scope_content                |-> "unset",
     markdown_output              |-> "unset",
     docx_path                    |-> "unset",
     pdf_path                     |-> "unset",
     version                      |-> 1,
     feedback_loops               |-> <<>>,
     errors                       |-> <<>>,
     warnings                     |-> <<>>]

\* The fields annotated with operator.add.
AddFields == {"feedback_loops", "errors", "warnings"}

hasattr(state, name) == name \in DOMAIN state

\* dict.get(key, default)
DictGet(d, key, default) == IF key \in DOMAIN d THEN d[key] ELSE default

\* The merge of a returned dictionary into the state: a key ProposalState does
\* not declare has no field to go to.
MergeProposal(s, u) ==
    [f \in DOMAIN s |->
        IF f \notin DOMAIN u THEN s[f]
        ELSE IF f \in AddFields THEN s[f] \o u[f]
        ELSE u[f]]

\* What a step function returns, and whether its try block hit an exception.
StepResult(update, raised) == [update |-> update, raised |-> raised]

Errors(message) == [errors |-> <<message>>]

\* ---- parse_discovery_input.py
parse_discovery_input(state, parsed) ==
    IF parsed = "raise"
    THEN StepResult(Errors("Input parsing failed"), TRUE)
    ELSE StepResult([workload_classification |-> parsed], FALSE)

\* ---- workload_classifier.py
classify_workloads(state, llm) ==
    IF state.workload_classification = "none"
    THEN StepResult(Errors("No workload data available for classification"), FALSE)
    ELSE IF llm = "raise"
    THEN StepResult(Errors("Workload classification failed"), TRUE)
    ELSE StepResult([classified_workloads |-> llm, workload_summary |-> "summary"], FALSE)

\* ---- content_generator.py
generate_overview_and_scope(state, llm) ==
    IF llm = "raise"
    THEN StepResult(Errors("Content generation failed"), TRUE)
    ELSE StepResult([overview_content  |-> "text",
                     scope_content     |-> "text",
                     executive_summary |-> "text"], FALSE)

\* create_proposal_generation_graph, lines 130-135: the two lambdas that call
\* generate_overview_and_scope and keep one key of its result.
generate_overview(state, llm) ==
    LET called == generate_overview_and_scope(state, llm)
    IN  StepResult([overview_content |-> DictGet(called.update, "overview_content", "")],
                   called.raised)

\* A faulty variant of the generate_scope lambda: it writes the key of the
\* generate_overview lambda.
generate_scope_as_overview(state, llm) ==
    LET called == generate_overview_and_scope(state, llm)
    IN  StepResult([overview_content |-> DictGet(called.update, "scope_content", "")],
                   called.raised)

generate_scope(state, llm) ==
    LET called == generate_overview_and_scope(state, llm)
    IN  StepResult([scope_content |-> DictGet(called.update, "scope_content", "")],
                   called.raised)

\* ---- wave_planner.py
plan_migration_waves(state, llm) ==
    IF state.classified_workloads = "none"
    THEN StepResult(Errors("No classified workloads available for wave planning"), FALSE)
    ELSE IF llm = "raise"
    THEN StepResult(Errors("Wave planning failed"), TRUE)
    ELSE StepResult([migration_waves |-> "plan"], FALSE)

\* ---- migration_strategist.py
classify_migration_strategies(state, llm) ==
    IF state.classified_workloads = "none"
    THEN StepResult(Errors("No classified workloads available for strategy classification"),
                    FALSE)
    ELSE IF llm = "raise"
    THEN StepResult(Errors("Strategy classification failed"), TRUE)
    ELSE StepResult([migration_strategies |-> "str", strategy_summary |-> "summary"], FALSE)

\* ---- proposal_nodes.py
provide_architecture_advice(state, llm) ==
    IF state.migration_strategies = "none"
    THEN StepResult(Errors("No migration strategies available for architecture advice"),
                    FALSE)
    ELSE IF llm = "raise"
    THEN StepResult(Errors("Architecture advice generation failed"), TRUE)
    ELSE StepResult([architecture_recommendations |-> llm], FALSE)

plan_genai_tools(state, llm) ==
    IF state.classified_workloads = "none"
    THEN StepResult(Errors("No workload data available for GenAI planning"), FALSE)
    ELSE IF llm = "raise"
    THEN StepResult(Errors("GenAI planning failed"), TRUE)
    ELSE StepResult([genai_recommendations |-> "plan"], FALSE)

estimate_sprint_efforts(state, llm) ==
    IF state.migration_waves = "none"
    THEN StepResult(Errors("No migration waves available for effort estimation"), FALSE)
    ELSE IF llm = "raise"
    THEN StepResult(Errors("Sprint effort estimation failed"), TRUE)
    ELSE StepResult([effort_estimates |-> llm], FALSE)

\* ---- proposal_formatter.py
\* _generate_strategy_content reads strategy.value and
\* _generate_architecture_content reads rec.cloud_provider: an AttributeError
\* on a string, a dictionary key or a dictionary.
format_proposal_sections(state) ==
    IF \/ state.migration_strategies = "str"
       \/ state.architecture_recommendations \in {"dict_plain", "dict_complex", "list"}
    THEN StepResult(Errors("Template formatting failed"), TRUE)
    ELSE StepResult([proposal_sections |-> "sections", markdown_output |-> "text"], FALSE)

\* f.write(state.markdown_output) is a TypeError when markdown_output is None.
create_output_files(state, io) ==
    IF state.markdown_output = "unset" \/ io = "raise"
    THEN StepResult(Errors("Output file creation failed"), TRUE)
    ELSE StepResult([docx_path |-> "path", pdf_path |-> "path"], FALSE)

(***************************************************************************)
(* src/graph/proposal_generation_graph.py: feedback tests and routers      *)
(***************************************************************************)
\* Iterating migration_strategies yields its keys when it is a mapping; only
\* an iterable of dictionaries ("dicts_complex": one of them recommends
\* refactor or repurchase, or lists more than two opportunities) gives True.
should_replan_waves(state) ==
    /\ hasattr(state, "migration_strategies")
    /\ state.migration_strategies = "dicts_complex"

\* A faulty variant of should_reclassify_strategies: the estimate is always
\* found too high.
should_reclassify_always(state) == TRUE

should_reclassify_strategies(state) ==
    /\ hasattr(state, "effort_estimates")
    /\ state.effort_estimates = "high"

\* arch_recs.get(...) needs a mapping: a non-empty list raises AttributeError.
should_update_scope(state) ==
    IF ~hasattr(state, "architecture_recommendations") THEN "False"
    ELSE CASE state.architecture_recommendations = "none"         -> "False"
           [] state.architecture_recommendations = "dict_complex" -> "True"
           [] state.architecture_recommendations = "dict_plain"   -> "False"
           [] OTHER                                               -> "AttributeError"

\* A router's return value, the state object as the call leaves it, and
\* whether the call raised.
Routed(target, state, raised) == [target |-> target, state |-> state, raised |-> raised]

\* state.feedback_loops.append(identifier)
AppendFeedback(state, identifier) ==
    [state EXCEPT !.feedback_loops = Append(@, identifier)]

route_after_modernisation_bias(state) ==
    IF should_replan_waves(state)
    THEN Routed("wave_planning",
                AppendFeedback(state, "modernisation_bias_triggered_wave_replan"), FALSE)
    ELSE Routed("architecture_advisor", state, FALSE)

route_after_architecture_advisor(state) ==
    CASE should_update_scope(state) = "True" ->
             Routed("generate_scope",
                    AppendFeedback(state, "architecture_complexity_triggered_scope_update"),
                    FALSE)
      [] should_update_scope(state) = "False" ->
             Routed("genai_tool_planner", state, FALSE)
      [] OTHER -> Routed("none", state, TRUE)

route_after_effort_estimation(state) ==
    IF should_reclassify_strategies(state)
    THEN Routed("migration_strategy_6rs",
                AppendFeedback(state, "effort_estimation_triggered_strategy_reclassification"),
                FALSE)
    ELSE Routed("template_formatter", state, FALSE)

\* The targets the graph definition marks "Feedback loop".
FeedbackTargets == {"wave_planning", "generate_scope", "migration_strategy_6rs"}

ProposalRouters == {"modernisation_bias", "architecture_advisor", "sprint_effort_estimator"}

\* create_proposal_generation_graph: the router attached to node n.
ProposalRoute(n, state) ==
    CASE n = "modernisation_bias"      -> route_after_modernisation_bias(state)
      [] n = "architecture_advisor"    -> route_after_architecture_advisor(state)
      [] n = "sprint_effort_estimator" -> route_after_effort_estimation(state)

\* create_proposal_generation_graph: the unconditional edges leaving node n.
ProposalEdges(n) ==
    CASE n = "parse_input"            -> {"classify_workloads"}
      [] n = "classify_workloads"     -> {"generate_overview", "generate_scope",
                                          "wave_planning", "migration_strategy_6rs"}
      [] n = "migration_strategy_6rs" -> {"modernisation_bias"}
      [] n = "genai_tool_planner"     -> {"sprint_effort_estimator"}
      [] n = "template_formatter"     -> {"pdf_creator"}
      [] OTHER                        -> {}

ProposalNodes ==
    {"parse_input", "classify_workloads", "generate_overview", "generate_scope",
     "wave_planning", "migration_strategy_6rs", "modernisation_bias",
     "architecture_advisor", "genai_tool_planner", "sprint_effort_estimator",
     "template_formatter", "pdf_creator"}

\* getattr(object, name, default)
getattr(object, name, default) == IF hasattr(object, name) THEN object[name] ELSE default

\* What graph.invoke hands back for a final state: a mapping whose keys are
\* the fields.  None of the fields is an attribute of it.
Invoked(state) == [mapping |-> state]

\* generate_proposal, lines 236-263: the returned dictionary for a final state.
ProposalOutcome(final_state) ==
    IF hasattr(final_state, "errors") /\ final_state.errors # <<>>
    THEN [raised         |-> FALSE,
          success        |-> FALSE,
          errors         |-> final_state.errors,
          feedback_loops |-> getattr(final_state, "feedback_loops", <<>>),
          iterations     |-> getattr(final_state, "version", 1),
          metadata       |-> None]
    ELSE LET feedback_loops == getattr(final_state, "feedback_loops", <<>>)
             version        == getattr(final_state, "version", 1)
         IN  [raised         |-> FALSE,
              success        |-> TRUE,
              errors         |-> <<>>,
              feedback_loops |-> feedback_loops,
              iterations     |-> version,
              metadata       |-> Some([total_feedback_loops |-> Len(feedback_loops),
                                       final_version        |-> version,
                                       optimisation_applied |-> Len(feedback_loops) > 0])]

\* generate_proposal, lines 265-273: an exception that escaped.
ProposalFailed ==
    [raised         |-> FALSE,
     success        |-> FALSE,
     errors         |-> <<"Proposal generation failed">>,
     feedback_loops |-> <<>>,
     iterations     |-> 1,
     metadata       |-> None]

\* An exception raised inside generate_proposal's try block.
ProposalEscaped == [ProposalFailed EXCEPT !.raised = TRUE]

\* generate_proposal, lines 222-273: the body's outcome behind
\* `except Exception`.
generate_proposal(outcome) ==
    IF outcome.raised THEN ProposalFailed ELSE outcome

(***************************************************************************)
(* The workflows as state machines                                         *)
(***************************************************************************)
RouteIdle ==
    [mode |-> "unused", analysis |-> <<>>, state |-> GraphState(None), result |-> <<>>]

FnIdle == [op |-> "unused", args |-> <<>>, result |-> <<>>]

EvalIdle(status) ==
    [status   |-> status,
     state    |-> GraphState(None),
     snapshot |-> GraphState(None),
     active   |-> {},
     next     |-> {},
     incoming |-> [node |-> "none", before |-> GraphState(None),
                   after |-> GraphState(None)],
     file     |-> [extension |-> "none", readable |-> FALSE],
     answered |-> TRUE,
     ran      |-> <<>>,
     result   |-> NoResult]

\* The engine's handling of values, which the graph definition leaves open:
\* whether it checks a state against ProposalState's declared types when it
\* builds the object a node or router is handed, and whether that object
\* shares its lists with the run's state.
Engines == [validates : BOOLEAN, shares : BOOLEAN]

ProposalIdle(status) ==
    [status     |-> status,
     engine     |-> [validates |-> FALSE, shares |-> FALSE],
     state      |-> ProposalState,
     snapshot   |-> ProposalState,
     active     |-> {},
     next       |-> {},
     routed     |-> [router |-> "none", before |-> ProposalState,
                     after |-> ProposalState],
     raised     |-> {},
     fired      |-> <<>>,
     since_fire |-> {},
     runs       |-> [n \in ProposalNodes |-> 0],
     result     |-> ProposalFailed]

EvalInit ==
    /\ rt = RouteIdle
    /\ pr = ProposalIdle("unused")
    /\ ev = EvalIdle("idle")
    /\ fn = FnIdle

\* evaluate_document up to graph.invoke: the document is parsed, or the parser
\* raises and no node runs.
EvaluateDocument ==
    /\ ev.status = "idle"
    /\ UNCHANGED <<rt, pr, fn>>
    /\ \E file \in Files :
          LET parsed_doc == parse_document(file)
          IN  ev' = IF parsed_doc.raised
                    THEN [ev EXCEPT !.status = "done", !.file = file,
                                    !.result = evaluate_document(Escaped)]
                    ELSE LET initial_state == GraphState(parsed_doc.document)
                         IN  [ev EXCEPT !.status = "running",
                                        !.file = file,
                                        !.state = initial_state,
                                        !.snapshot = initial_state,
                                        !.active = {"parse_input_doc"}]

\* Node n of the current step has returned `res`: merge its update, note the
\* nodes its edges name, and when the step is over begin the next one or end
\* the run with evaluate_document's return value.  `answered` tells whether
\* the node's LLM call returned the JSON it was asked for; ev.answered keeps
\* whether every call of the run so far did, ev.ran the nodes that have
\* returned, in the order they did.
RunEvaluationNode(n, res, answered) ==
    LET merged == MergeUpdate(ev.state, res.update)
        nxt    == ev.next \cup EvaluationEdges(n, MergeUpdate(ev.snapshot, res.update))
        rest   == ev.active \ {n}
        seen   == [node |-> n, before |-> ev.snapshot, after |-> res.incoming]
        all    == ev.answered /\ answered
        ran    == Append(ev.ran, n)
    IN  /\ UNCHANGED <<rt, pr, fn>>
        /\ ev' = IF rest # {}
                 THEN [ev EXCEPT !.state = merged, !.active = rest, !.next = nxt,
                                 !.incoming = seen, !.answered = all, !.ran = ran]
                 ELSE IF nxt # {}
                 THEN [ev EXCEPT !.state = merged, !.snapshot = merged,
                                 !.active = nxt, !.next = {}, !.incoming = seen,
                                 !.answered = all, !.ran = ran]
                 ELSE [ev EXCEPT !.state = merged, !.snapshot = merged,
                                 !.active = {}, !.next = {}, !.incoming = seen,
                                 !.answered = all, !.ran = ran,
                                 !.status = "done",
                                 !.result = evaluate_document(EvaluationOutcome(merged))]

Runs(n) == ev.status = "running" /\ n \in ev.active

\* A stage of the LLM's analysis that scores above the routing threshold and
\* names content.
Relevant(stage) ==
    /\ stage.confidence_score > Threshold
    /\ stage.relevant_content \notin {NoRelevantContent, MissingKey}

ParseInputDoc ==
    /\ Runs("parse_input_doc")
    /\ \E llm \in LLMOutcomes :
          RunEvaluationNode("parse_input_doc", parse_input_doc_node(ev.snapshot, llm),
                            llm = "ok")

ExtractIntentAndPhases ==
    /\ Runs("extract_intent_and_phases")
    /\ \E llm \in LLMOutcomes, analysis \in WorkflowAnalyses :
          RunEvaluationNode("extract_intent_and_phases",
              extract_intent_and_phases_node(ev.snapshot, llm, analysis),
              llm = "ok" /\ \E i \in 1..Len(analysis) : Relevant(analysis[i]))

PhaseEvaluator(n) ==
    /\ Runs(n)
    /\ \E llm \in LLMOutcomes :
          RunEvaluationNode(n, phase_evaluator_node(ev.snapshot, PhaseOfEvaluator(n), llm),
                            llm = "ok")

SpecChecker ==
    /\ Runs("spec_checker")
    /\ \E llm \in LLMOutcomes :
          RunEvaluationNode("spec_checker", spec_checker_node(ev.snapshot, llm),
                            llm = "ok")

GapHighlighter ==
    /\ Runs("gap_highlighter")
    /\ \E llm \in LLMOutcomes, gaps \in {<<>>, <<"gap">>} :
          RunEvaluationNode("gap_highlighter", gap_highlighter_node(ev.snapshot, llm, gaps),
                            llm = "ok" /\ gaps # <<>>)

RecommendationsGenerator ==
    /\ Runs("recommendations_generator")
    /\ \E llm \in LLMOutcomes, recs \in {<<>>, <<"recommendation">>} :
          RunEvaluationNode("recommendations_generator",
              recommendations_generator_node(ev.snapshot, llm, recs),
              llm = "ok" /\ recs # <<>>)

Scoring ==
    /\ Runs("scoring")
    /\ \E llm \in LLMOutcomes :
          RunEvaluationNode("scoring", scoring_node(ev.snapshot, llm), llm = "ok")

EvalNext ==
    \/ EvaluateDocument
    \/ ParseInputDoc
    \/ ExtractIntentAndPhases
    \/ \E n \in Evaluators : PhaseEvaluator(n)
    \/ SpecChecker
    \/ GapHighlighter
    \/ RecommendationsGenerator
    \/ Scoring

EvalSpec == EvalInit /\ [][EvalNext]_vars

(***************************************************************************)
(* Properties of the evaluation workflow (EvalSpec)                        *)
(***************************************************************************)
\* The fields of claim C1, as one value.
DataFields(s) ==
    <<s.phase_evaluations, s.spec_compliance, s.gaps, s.recommendations,
      s.evaluation_result, s.parsed_document>>

\* C1: once a step has left a non-null error in the state, no node that runs
\* in a later step changes phase_evaluations, spec_compliance, gaps,
\* recommendations, evaluation_result or parsed_document.
C1_ErrorShortCircuit ==
    [][(ev.status = "running" /\ ev.snapshot.error # NoError)
          => DataFields(ev'.state) = DataFields(ev.state)]_vars

\* C10: when an evaluation node has returned, the state object it was handed
\* is as it was when the node was called.
C10_NodesDoNotMutate ==
    ev.incoming.before = ev.incoming.after

\* A node took the path that copies the metadata map and stores into the copy:
\* spec_checker succeeded, its keys are in the merged state and were not in the
\* state it was handed.
C10_Witness ==
    /\ ev.incoming.node = "spec_checker"
    /\ ev.state.spec_compliance # None
    /\ "red_flags" \in MetadataOf(ev.state)
    /\ "red_flags" \notin MetadataOf(ev.incoming.before)

(***************************************************************************)
(* route_after_phase_extraction as a function of the state.                *)
(*                                                                         *)
(* RouteSpec hands it any GraphState a caller can build: phase_contents is *)
(* grown one PhaseContent at a time (add_to_list), so it may be empty,     *)
(* miss a phase or list a phase twice.                                     *)
(*                                                                         *)
(* ExtractRouteSpec hands it the states the workflow builds: the           *)
(* phase_contents IntentAndPhaseExtractor derives from an LLM analysis.    *)
(***************************************************************************)
MaxContents == 3

Confidences == {0, 2, 3, 5, 8}
Contents == {"content", NoRelevantContent}

RouteInit ==
    /\ rt = [RouteIdle EXCEPT !.mode = "input"]
    /\ ev = EvalIdle("unused")
    /\ pr = ProposalIdle("unused")
    /\ fn = FnIdle

AppendPhaseContent ==
    /\ rt.mode = "input"
    /\ Len(rt.state.phase_contents) < MaxContents
    /\ \E phase \in Phases, content \in Contents, score \in Confidences :
          rt' = [rt EXCEPT !.state.phase_contents =
                     add_to_list(@, <<PhaseContent(phase, content, score)>>)]
    /\ UNCHANGED <<ev, pr, fn>>

Route ==
    /\ rt.mode \in {"input", "extracted"}
    /\ rt' = [rt EXCEPT !.mode = "routed",
                        !.result = route_after_phase_extraction(rt.state)]
    /\ UNCHANGED <<ev, pr, fn>>

RouteNext == AppendPhaseContent \/ Route

RouteSpec == RouteInit /\ [][RouteNext]_vars

\* The analyses the LLM may return: stage entries in any key order, a stage
\* possibly absent, relevant_content possibly missing, the score possibly out
\* of range (12).
ExtractAnalyses ==
    Analyses({0, 1, 2, 3, 5, 8, 12}, {"content", NoRelevantContent, MissingKey})

ExtractRouteInit ==
    /\ \E analysis \in ExtractAnalyses :
          rt = [RouteIdle EXCEPT !.mode = "analysis", !.analysis = analysis]
    /\ ev = EvalIdle("unused")
    /\ pr = ProposalIdle("unused")
    /\ fn = FnIdle

\* extract_intent_and_phases on a successful LLM call, merged into a new state.
Extract ==
    /\ rt.mode = "analysis"
    /\ LET s0 == GraphState(ParsedDocument({"filename"}))
           u  == extract_intent_and_phases_node(s0, "ok", rt.analysis).update
       IN  rt' = [rt EXCEPT !.mode = "extracted", !.state = MergeUpdate(s0, u)]
    /\ UNCHANGED <<ev, pr, fn>>

ExtractRouteNext == Extract \/ Route

ExtractRouteSpec == ExtractRouteInit /\ [][ExtractRouteNext]_vars

(***************************************************************************)
(* The proposal workflow: generate_proposal and the run of the graph       *)
(***************************************************************************)
\* A state whose values ProposalState's declarations do not admit: a mapping
\* where a list is declared.
IllTyped(state) ==
    state.architecture_recommendations \in {"dict_plain", "dict_complex"}

\* The values after conversion to the declared types: strategy strings become
\* MigrationStrategy members, listed mappings ArchitectureRecommendation objects.
Coerced(state) ==
    [state EXCEPT !.migration_strategies = IF @ = "str" THEN "enum" ELSE @,
                  !.architecture_recommendations = IF @ = "list" THEN "objects" ELSE @]

\* The state object the engine hands to a node or a router.
Handed(state) == IF pr.engine.validates THEN Coerced(state) ELSE state

PropInit ==
    /\ rt = RouteIdle
    /\ ev = EvalIdle("unused")
    /\ fn = FnIdle
    /\ \E engine \in Engines :
          pr = [ProposalIdle("idle") EXCEPT !.engine = engine]

\* generate_proposal up to graph.invoke: DiscoveryInput(**discovery_data)
\* accepts the data, or raises and no node runs.
GenerateProposal ==
    /\ pr.status = "idle"
    /\ UNCHANGED <<ev, rt, fn>>
    /\ \E discovery_data \in {"valid", "invalid"} :
          pr' = IF discovery_data = "invalid"
                THEN [pr EXCEPT !.status = "done",
                                !.result = generate_proposal(ProposalEscaped)]
                ELSE [pr EXCEPT !.status = "running", !.active = {"parse_input"}]

\* The identifiers a router call appended to the list of the object it was
\* handed.
Appended(before, after) ==
    SubSeq(after.feedback_loops, Len(before.feedback_loops) + 1, Len(after.feedback_loops))

\* Node n of the current step has returned `res`.  The engine merges the
\* update, calls the node's router if it has one, and when the step is over
\* begins the next one or returns the final state to generate_proposal.  A
\* router that raises, or a state the engine rejects, ends graph.invoke with an
\* exception.
RunProposalNode(n, res) ==
    LET given    == MergeProposal(pr.snapshot, res.update)
        rejected == pr.engine.validates /\ IllTyped(given)
        handed   == Handed(given)
        routes   == n \in ProposalRouters /\ ~rejected
        route    == IF routes THEN ProposalRoute(n, handed)
                    ELSE Routed("none", handed, FALSE)
        fires    == route.target \in FeedbackTargets
        targets  == IF routes THEN {route.target} ELSE ProposalEdges(n)
        written  == MergeProposal(pr.state, res.update)
        merged   == IF pr.engine.shares
                    THEN [written EXCEPT !.feedback_loops = @ \o Appended(handed, route.state)]
                    ELSE written
        nxt      == pr.next \cup targets
        rest     == pr.active \ {n}
        seen     == [pr EXCEPT
                        !.state      = merged,
                        !.routed     = IF routes
                                       THEN [router |-> n, before |-> handed,
                                             after |-> route.state]
                                       ELSE @,
                        !.raised     = IF res.raised THEN @ \cup {n} ELSE @,
                        !.fired      = IF fires THEN Append(@, route.target) ELSE @,
                        !.since_fire = IF fires THEN {} ELSE @ \cup {n},
                        !.runs[n]    = @ + 1]
    IN  /\ UNCHANGED <<ev, rt, fn>>
        /\ pr' = IF rejected \/ route.raised
                 THEN [seen EXCEPT !.status = "done", !.active = {}, !.next = {},
                                   !.result = generate_proposal(ProposalEscaped)]
                 ELSE IF rest # {}
                 THEN [seen EXCEPT !.active = rest, !.next = nxt]
                 ELSE IF nxt # {}
                 THEN [seen EXCEPT !.snapshot = merged, !.active = nxt, !.next = {}]
                 ELSE [seen EXCEPT !.snapshot = merged, !.active = {}, !.next = {},
                                   !.status = "done",
                                   !.result =
                                       generate_proposal(ProposalOutcome(Invoked(merged)))]

PRuns(n) == pr.status = "running" /\ n \in pr.active

\* The state object node functions of the current step are handed.
Input == Handed(pr.snapshot)

ParseInput ==
    /\ PRuns("parse_input")
    /\ \E parsed \in {"data", "none", "raise"} :
          RunProposalNode("parse_input", parse_discovery_input(Input, parsed))

ClassifyWorkloads ==
    /\ PRuns("classify_workloads")
    /\ \E llm \in {"some", "none", "raise"} :
          RunProposalNode("classify_workloads", classify_workloads(Input, llm))

\* lambda state: {"overview_content": generate_overview_and_scope(state).get(...)}
GenerateOverview ==
    /\ PRuns("generate_overview")
    /\ \E llm \in LLMOutcomes :
          RunProposalNode("generate_overview", generate_overview(Input, llm))

GenerateScope ==
    /\ PRuns("generate_scope")
    /\ \E llm \in LLMOutcomes :
          RunProposalNode("generate_scope", generate_scope(Input, llm))

WavePlanning ==
    /\ PRuns("wave_planning")
    /\ \E llm \in LLMOutcomes :
          RunProposalNode("wave_planning", plan_migration_waves(Input, llm))

MigrationStrategy6Rs ==
    /\ PRuns("migration_strategy_6rs")
    /\ \E llm \in LLMOutcomes :
          RunProposalNode("migration_strategy_6rs",
                          classify_migration_strategies(Input, llm))

\* lambda state: {"modernization_analysis": "Applied modernization bias ..."}
ModernisationBias ==
    /\ PRuns("modernisation_bias")
    /\ RunProposalNode("modernisation_bias",
                       StepResult([modernization_analysis |-> "applied"], FALSE))

ArchitectureAdvisor ==
    /\ PRuns("architecture_advisor")
    /\ \E llm \in {"none", "dict_plain", "dict_complex", "list", "raise"} :
          RunProposalNode("architecture_advisor", provide_architecture_advice(Input, llm))

GenaiToolPlanner ==
    /\ PRuns("genai_tool_planner")
    /\ \E llm \in LLMOutcomes :
          RunProposalNode("genai_tool_planner", plan_genai_tools(Input, llm))

SprintEffortEstimator ==
    /\ PRuns("sprint_effort_estimator")
    /\ \E llm \in {"normal", "high", "raise"} :
          RunProposalNode("sprint_effort_estimator", estimate_sprint_efforts(Input, llm))

TemplateFormatter ==
    /\ PRuns("template_formatter")
    /\ RunProposalNode("template_formatter", format_proposal_sections(Input))

PdfCreator ==
    /\ PRuns("pdf_creator")
    /\ \E io \in {"ok", "raise"} :
          RunProposalNode("pdf_creator", create_output_files(Input, io))

PropNext ==
    \/ GenerateProposal
    \/ ParseInput
    \/ ClassifyWorkloads
    \/ GenerateOverview
    \/ GenerateScope
    \/ WavePlanning
    \/ MigrationStrategy6Rs
    \/ ModernisationBias
    \/ ArchitectureAdvisor
    \/ GenaiToolPlanner
    \/ SprintEffortEstimator
    \/ TemplateFormatter
    \/ PdfCreator

PropSpec == PropInit /\ [][PropNext]_vars

(***************************************************************************)
(* Properties of route_after_phase_extraction                              *)
(***************************************************************************)
NoDuplicates(s) == \A i, j \in 1..Len(s) : i # j => s[i] # s[j]

\* A phase content that clears the threshold, in the words of claim C7.
Clears(pc) ==
    pc.confidence_score > Threshold /\ pc.relevant_content # NoRelevantContent

\* C6 (RouteSpec): for every GraphState the router returns a non-empty list
\* without duplicates of evaluator node names, and exactly one name when no
\* phase satisfies should_evaluate_phase.
C6_RouteTotal ==
    rt.mode = "routed" =>
        /\ rt.result # <<>>
        /\ NoDuplicates(rt.result)
        /\ SeqToSet(rt.result) \subseteq Evaluators
        /\ (\A p \in Phases : ~should_evaluate_phase(rt.state, p))
              => Len(rt.result) = 1

\* A phase listed twice, no phase passing, one evaluator returned.
C6_Witness ==
    LET pcs == rt.state.phase_contents
    IN  /\ rt.mode = "routed"
        /\ \E i, j \in 1..Len(pcs) : i # j /\ pcs[i].phase = pcs[j].phase
        /\ \A p \in Phases : ~should_evaluate_phase(rt.state, p)
        /\ Len(rt.result) = 1

\* C7 (RouteSpec): on a state that lists every phase at most once and in which
\* some phase content clears the threshold, the router returns the evaluators
\* of exactly the phases whose content has a score above 0.5 and relevant
\* content.
C7_RouteSelection ==
    LET pcs == rt.state.phase_contents
    IN  (/\ rt.mode = "routed"
         /\ \A i, j \in 1..Len(pcs) : pcs[i].phase = pcs[j].phase => i = j
         /\ \E i \in 1..Len(pcs) : Clears(pcs[i])) =>
            SeqToSet(rt.result) =
                {EvaluatorOf(pcs[i].phase) : i \in {k \in 1..Len(pcs) : Clears(pcs[k])}}

\* Confidences 0.2, 0.8, 0.3 in phase order: only the second is selected.
C7_Witness ==
    LET pcs == rt.state.phase_contents
    IN  /\ rt.mode = "routed"
        /\ Len(pcs) = 3
        /\ \A i \in 1..Len(pcs) : pcs[i].relevant_content = "content"
        /\ pcs[1].phase = STRATEGISE_AND_PLAN   /\ pcs[1].confidence_score = 2
        /\ pcs[2].phase = MIGRATE_AND_MODERNISE /\ pcs[2].confidence_score = 8
        /\ pcs[3].phase = MANAGE_AND_OPTIMISE   /\ pcs[3].confidence_score = 3
        /\ rt.result = <<"migrate_and_modernise_evaluator">>

Returned == pr.status = "done" /\ pr.result # ProposalFailed

\* C2: when a step function hit an exception during the run, generate_proposal
\* returns success=False with a non-empty errors list.
C2_FailuresRecorded ==
    (pr.status = "done" /\ pr.raised # {}) =>
        (pr.result.success = FALSE /\ pr.result.errors # <<>>)

C4_FeedbackCompletes ==
    (Returned /\ pr.fired # <<>>) =>
        {"template_formatter", "pdf_creator"} \subseteq pr.since_fire

\* C5: generate_proposal reports iterations = 1 + the number of feedback
\* firings, and metadata.total_feedback_loops = the number of firings.
C5_IterationsCountFirings ==
    Returned =>
        /\ pr.result.iterations = 1 + Len(pr.fired)
        /\ pr.result.success =>
              pr.result.metadata[1].total_feedback_loops = Len(pr.fired)

\* C9: a router call leaves the state object it was handed unchanged.
C9_RoutersArePure ==
    pr.routed.before = pr.routed.after

(***************************************************************************)
(* src/utils/json_parser.py: parse_llm_json_response                       *)
(*                                                                         *)
(* A response text is a sequence of tokens:                                *)
(*   "{" "}"  braces            "f"  a fence of three backticks            *)
(*   "j"      the word json: the tag after a fence, prose elsewhere        *)
(*   "_"      whitespace        "1"  a number literal                      *)
(*   "q"      a key with its colon, "a":                                   *)
(* so that {q1} reads {"a": 1}.  A parsed value is kept by kind; an object *)
(* also by its member and the member's value.                              *)
(***************************************************************************)
Tokens == {"{", "}", "f", "j", "_", "q", "1"}

JsonValue(kind, member, inner) == [kind |-> kind, member |-> member, inner |-> inner]

\* What json.loads raises on a text that is not JSON.
JSONDecodeError == JsonValue("JSONDecodeError", "none", <<>>)

\* fallback_data=None, and the value slot of a call that raised.
NoFallback == JsonValue("None", "none", <<>>)

RECURSIVE LStrip(_)
LStrip(s) == IF s # <<>> /\ s[1] = "_" THEN LStrip(Tail(s)) ELSE s

RECURSIVE RStrip(_)
RStrip(s) ==
    IF s # <<>> /\ s[Len(s)] = "_" THEN RStrip(SubSeq(s, 1, Len(s) - 1)) ELSE s

\* json.loads: a number, or an object that is empty or holds a key whose
\* value is again JSON; whitespace around values is skipped.
RECURSIVE json_loads(_)
json_loads(s) ==
    LET t == RStrip(LStrip(s))
    IN  IF t = <<"1">> THEN JsonValue("number", "none", <<>>)
        ELSE IF Len(t) >= 2 /\ t[1] = "{" /\ t[Len(t)] = "}"
        THEN LET body == RStrip(LStrip(SubSeq(t, 2, Len(t) - 1)))
             IN  IF body = <<>> THEN JsonValue("object", "none", <<>>)
                 ELSE IF body[1] = "q"
                 THEN LET v == json_loads(Tail(body))
                      IN  IF v = JSONDecodeError THEN JSONDecodeError
                          ELSE JsonValue("object", "q", <<v>>)
                 ELSE JSONDecodeError
        ELSE JSONDecodeError

\* A regex search: the matched group, or no match.
NoMatch == [found |-> FALSE, group |-> <<>>]
Match(group) == [found |-> TRUE, group |-> group]

\* The first index from i on that holds no whitespace (Len + 1 if none).
RECURSIVE SkipSpace(_, _)
SkipSpace(text, i) ==
    IF i <= Len(text) /\ text[i] = "_" THEN SkipSpace(text, i + 1) ELSE i

\* The pattern of line 28 tried at position i: fence, optional tag, spaces,
\* the shortest "{" ... "}" that spaces and a fence follow.
FenceAt(text, i) ==
    IF text[i] # "f" THEN NoMatch
    ELSE LET a0 == IF i + 1 <= Len(text) /\ text[i + 1] = "j" THEN i + 2 ELSE i + 1
             a  == SkipSpace(text, a0)
         IN  IF a > Len(text) \/ text[a] # "{" THEN NoMatch
             ELSE LET ends == {b \in (a + 1)..Len(text) :
                                  /\ text[b] = "}"
                                  /\ LET c == SkipSpace(text, b + 1)
                                     IN  c <= Len(text) /\ text[c] = "f"}
                  IN  IF ends = {} THEN NoMatch
                      ELSE Match(SubSeq(text, a, MinOf(ends)))

\* re.search of line 28: the match at the leftmost position that has one.
RECURSIVE search_fenced(_, _)
search_fenced(text, i) ==
    IF i > Len(text) THEN NoMatch
    ELSE IF FenceAt(text, i).found THEN FenceAt(text, i)
    ELSE search_fenced(text, i + 1)

\* A faulty variant of line 36: the shortest span, with .*? in place of .*.
search_braces_shortest(text) ==
    LET opens == {a \in 1..Len(text) : text[a] = "{"}
    IN  IF opens = {} THEN NoMatch
        ELSE LET a == MinOf(opens)
                 closes == {b \in (a + 1)..Len(text) : text[b] = "}"}
             IN  IF closes = {} THEN NoMatch
                 ELSE Match(SubSeq(text, a, MinOf(closes)))

\* re.search of line 36: from the first "{" to the last "}".
search_braces(text) ==
    LET opens == {a \in 1..Len(text) : text[a] = "{"}
    IN  IF opens = {} THEN NoMatch
        ELSE LET a == MinOf(opens)
                 closes == {b \in (a + 1)..Len(text) : text[b] = "}"}
             IN  IF closes = {} THEN NoMatch
                 ELSE Match(SubSeq(text, a,
                                   CHOOSE b \in closes : \A c \in closes : c <= b))

Returned_value(value) == [raised |-> "none", value |-> value]
Raised(exception) == [raised |-> exception, value |-> NoFallback]

\* A faulty variant of line 43: `if fallback_data:`, so that an empty record
\* counts as no fallback.
parse_llm_json_response_truthy(response_content, fallback_data) ==
    LET direct == json_loads(response_content)
        fenced == search_fenced(response_content, 1)
        braces == search_braces(response_content)
    IN  IF direct # JSONDecodeError THEN Returned_value(direct)
        ELSE IF fenced.found /\ json_loads(fenced.group) # JSONDecodeError
        THEN Returned_value(json_loads(fenced.group))
        ELSE IF braces.found /\ json_loads(braces.group) # JSONDecodeError
        THEN Returned_value(json_loads(braces.group))
        ELSE IF fallback_data \notin {NoFallback, JsonValue("object", "none", <<>>)}
        THEN Returned_value(fallback_data)
        ELSE Raised("ValueError")

parse_llm_json_response(response_content, fallback_data) ==
    LET direct == json_loads(response_content)
        fenced == search_fenced(response_content, 1)
        braces == search_braces(response_content)
    IN  IF direct # JSONDecodeError THEN Returned_value(direct)
        ELSE IF fenced.found /\ json_loads(fenced.group) # JSONDecodeError
        THEN Returned_value(json_loads(fenced.group))
        ELSE IF braces.found /\ json_loads(braces.group) # JSONDecodeError
        THEN Returned_value(json_loads(braces.group))
        ELSE IF fallback_data # NoFallback THEN Returned_value(fallback_data)
        ELSE Raised("ValueError")

\* ---- parse_llm_json_response as a function of the text and the fallback
MaxTextLen == 5

Texts == UNION {[1..n -> Tokens] : n \in 0..MaxTextLen}

\* No fallback, an empty record, a record with fields.
Fallbacks ==
    {NoFallback, JsonValue("object", "none", <<>>), JsonValue("object", "fallback", <<>>)}

JsonInit ==
    /\ rt = RouteIdle
    /\ ev = EvalIdle("unused")
    /\ pr = ProposalIdle("unused")
    /\ \E text \in Texts :
          fn = [op |-> "input",
                args |-> [response_content |-> text, fallback_data |-> NoFallback],
                result |-> Raised("none")]

ParseLlmJsonResponse ==
    /\ fn.op = "input"
    /\ \E fallback_data \in Fallbacks :
          fn' = [op |-> "parse_llm_json_response",
                 args |-> [fn.args EXCEPT !.fallback_data = fallback_data],
                 result |-> parse_llm_json_response(fn.args.response_content,
                                                    fallback_data)]
    /\ UNCHANGED <<ev, rt, pr>>

JsonNext == ParseLlmJsonResponse

JsonSpec == JsonInit /\ [][JsonNext]_vars

(***************************************************************************)
(* Properties of parse_llm_json_response (JsonSpec)                        *)
(***************************************************************************)
Called == fn.op = "parse_llm_json_response"

\* The three texts the attempts parse, stated from the text alone.
\* The fenced spans: a fence, an optional tag, spaces, "{" at a, "}" at b,
\* spaces, a fence.
FencedSpans(text) ==
    {s \in (1..Len(text)) \X (1..Len(text)) \X (1..Len(text)) :
        LET i == s[1]
            a == s[2]
            b == s[3]
        IN  /\ i < a /\ a < b
            /\ text[i] = "f" /\ text[a] = "{" /\ text[b] = "}"
            /\ \A k \in (i + 1)..(a - 1) :
                  text[k] = "_" \/ (k = i + 1 /\ text[k] = "j")
            /\ \E c \in (b + 1)..Len(text) :
                  /\ text[c] = "f"
                  /\ \A k \in (b + 1)..(c - 1) : text[k] = "_"}

\* The span a search takes: the leftmost fence, then the nearest closing brace.
FencedInterior(text) ==
    LET S == FencedSpans(text)
        s == CHOOSE x \in S : \A y \in S : x[1] < y[1] \/ (x[1] = y[1] /\ x[3] <= y[3])
    IN  SubSeq(text, s[2], s[3])

HasBraceSpan(text) ==
    \E a, b \in 1..Len(text) : a < b /\ text[a] = "{" /\ text[b] = "}"

BraceSpan(text) ==
    LET a == CHOOSE x \in 1..Len(text) :
                 text[x] = "{" /\ \A y \in 1..(x - 1) : text[y] # "{"
        b == CHOOSE x \in 1..Len(text) :
                 text[x] = "}" /\ \A y \in (x + 1)..Len(text) : text[y] # "}"
    IN  SubSeq(text, a, b)

Parses(s) == json_loads(s) # JSONDecodeError

FencedParses(text) == FencedSpans(text) # {} /\ Parses(FencedInterior(text))

BraceParses(text) ==
    /\ HasBraceSpan(text)
    /\ \E a \in 1..Len(text) : text[a] = "{" /\ \A y \in 1..(a - 1) : text[y] # "{"
          /\ \E b \in (a + 1)..Len(text) : text[b] = "}"
    /\ Parses(BraceSpan(text))

C12_FallbackOrRaise ==
    Called =>
        LET text     == fn.args.response_content
            fallback == fn.args.fallback_data
            r        == fn.result
        IN  /\ fallback # NoFallback => r.raised = "none"
            /\ (~Parses(text) /\ ~FencedParses(text) /\ ~BraceParses(text)) =>
                  IF fallback # NoFallback THEN r = Returned_value(fallback)
                  ELSE r = Raised("ValueError")

\* A text of prose, "json json", with an empty record as fallback: the record
\* is returned.
C12_Witness ==
    /\ Called
    /\ fn.args.response_content = <<"j", "_", "j">>
    /\ fn.args.fallback_data = JsonValue("object", "none", <<>>)
    /\ fn.result = Returned_value(JsonValue("object", "none", <<>>))

\* C13: whatever the text and the fallback, a returned value is a JSON object.
C13_ReturnsObject ==
    (Called /\ fn.result.raised = "none") => fn.result.value.kind = "object"

(***************************************************************************)
(* The reducers of src/models/evaluation.py as functions of their          *)
(* arguments: a field value and two updates applied one after the other.   *)
(* A list of at most one element is also an Optional value (None, Some),   *)
(* and a list of none or two an error (None, <<text, detail>>).            *)
(***************************************************************************)
MaxListLen == 2

Elements == {"a", "b"}

Lists == UNION {[1..n -> Elements] : n \in 0..MaxListLen}

Optionals == {l \in Lists : Len(l) <= 1}

ErrorValues == {l \in Lists : Len(l) \in {0, 2}}

\* A result keeps the field after one update (once), after a second one
\* (twice), and after the two updates given as one (joined).
ReducerInit ==
    /\ rt = RouteIdle
    /\ ev = EvalIdle("unused")
    /\ pr = ProposalIdle("unused")
    /\ \E existing \in Lists, u1 \in Lists, u2 \in Lists :
          fn = [op |-> "input",
                args |-> [existing |-> existing, u1 |-> u1, u2 |-> u2],
                result |-> [once |-> <<>>, twice |-> <<>>, joined |-> <<>>]]

AddToList ==
    /\ fn.op = "input"
    /\ fn' = [fn EXCEPT !.op = "add_to_list",
                        !.result =
                            [once   |-> add_to_list(fn.args.existing, fn.args.u1),
                             twice  |-> add_to_list(add_to_list(fn.args.existing,
                                                                fn.args.u1), fn.args.u2),
                             joined |-> add_to_list(fn.args.existing,
                                                    fn.args.u1 \o fn.args.u2)]]
    /\ UNCHANGED <<ev, rt, pr>>

\* The same update applied twice.
KeepLatest ==
    /\ fn.op = "input"
    /\ fn.args.existing \in Optionals /\ fn.args.u1 \in Optionals
    /\ fn.args.u2 = fn.args.u1
    /\ fn' = [fn EXCEPT !.op = "keep_latest",
                        !.result =
                            [once   |-> keep_latest(fn.args.existing, fn.args.u1),
                             twice  |-> keep_latest(keep_latest(fn.args.existing, fn.args.u1),
                                                      fn.args.u2),
                             joined |-> keep_latest(fn.args.existing, fn.args.u1)]]
    /\ UNCHANGED <<ev, rt, pr>>

KeepFirstError ==
    /\ fn.op = "input"
    /\ fn.args.existing \in ErrorValues /\ fn.args.u1 \in ErrorValues
    /\ fn.args.u2 = fn.args.u1
    /\ fn' = [fn EXCEPT !.op = "keep_first_error",
                        !.result =
                            [once   |-> keep_first_error(fn.args.existing, fn.args.u1),
                             twice  |-> keep_first_error(keep_first_error(fn.args.existing, fn.args.u1),
                                                           fn.args.u2),
                             joined |-> keep_first_error(fn.args.existing, fn.args.u1)]]
    /\ UNCHANGED <<ev, rt, pr>>

ReducerNext == AddToList \/ KeepLatest \/ KeepFirstError

ReducerSpec == ReducerInit /\ [][ReducerNext]_vars

(***************************************************************************)
(* Properties of the reducers (ReducerSpec)                                *)
(***************************************************************************)
IsPrefix(s, l) == Len(s) <= Len(l) /\ SubSeq(l, 1, Len(s)) = s

\* C14: add_to_list keeps the existing elements as a prefix, appends the new
\* ones in their order, and two updates in a row give what the two updates
\* joined give.
C14_AddToListAssociative ==
    fn.op = "add_to_list" =>
        /\ fn.result.twice = fn.result.joined
        /\ IsPrefix(fn.args.existing, fn.result.once)
        /\ fn.result.once = fn.args.existing \o fn.args.u1
        /\ fn.result.twice = fn.args.existing \o fn.args.u1 \o fn.args.u2

\* Non-empty existing list and updates with different elements.
C14_Witness ==
    /\ fn.op = "add_to_list"
    /\ fn.args.existing = <<"a">>
    /\ fn.args.u1 = <<"b", "a">>
    /\ fn.args.u2 = <<"b">>
    /\ fn.result.twice = <<"a", "b", "a", "b">>

\* C15: applying the same update twice gives what applying it once gives;
\* keep_latest gives the update unless it is None, keep_first_error gives the
\* existing value unless it is None.
C15_KeepIdempotent ==
    /\ fn.op \in {"keep_latest", "keep_first_error"} =>
          fn.result.twice = fn.result.once
    /\ fn.op = "keep_latest" =>
          fn.result.once = IF fn.args.u1 # <<>> THEN fn.args.u1 ELSE fn.args.existing
    /\ fn.op = "keep_first_error" =>
          fn.result.once = IF fn.args.existing # <<>> THEN fn.args.existing
                           ELSE fn.args.u1

\* An error is held and a different error arrives twice: the first is kept.
C15_Witness ==
    /\ fn.op = "keep_first_error"
    /\ fn.args.existing = <<"a", "a">>
    /\ fn.args.u1 = <<"b", "b">>
    /\ fn.result.twice = <<"a", "a">>

(***************************************************************************)
(* The error field over a run of the evaluation workflow (EvalSpec)        *)
(***************************************************************************)
\* The node whose update carries this error: every node puts its own name, a
\* phase evaluator its phase, into the message.
SetBy(error, n) ==
    error[2] = (IF n \in Evaluators THEN PhaseOfEvaluator(n) ELSE n)

\* C16: once the state's error is non-null no later merge changes it, and the
\* merge that makes it non-null stores the error of the node update merged.
C16_FirstErrorKept ==
    [][/\ ev.state.error # NoError => ev'.state.error = ev.state.error
       /\ (ev.state.error = NoError /\ ev'.state.error # NoError)
             => SetBy(ev'.state.error, ev'.incoming.node)]_vars

\* The run is over, an early node set the error and a later node, which
\* always returns an error of its own, has been merged since.
C16_Witness ==
    /\ ev.status = "done"
    /\ ev.incoming.node = "scoring"
    /\ ev.state.error # NoError
    /\ SetBy(ev.state.error, "parse_input_doc")

(***************************************************************************)
(* One fan-out of phase evaluators (create_evaluation_graph, lines 102-115)*)
(*                                                                         *)
(* The conditional edge after extract_intent_and_phases starts every node  *)
(* route_after_phase_extraction names in one step.  Each of them is handed *)
(* the state as extraction left it, and the updates they return are merged *)
(* into the state one after the other by the fields' reducers.  FanOutSpec *)
(* takes a state extraction can leave, an answer of the LLM for each       *)
(* started evaluator and two orders of merging, and keeps both results.    *)
(***************************************************************************)
\* The state after parse_input_doc and extract_intent_and_phases.
Extracted(llm, analysis) ==
    LET initial_state == GraphState(ParsedDocument({"filename"}))
    IN  MergeUpdate(initial_state,
                    extract_intent_and_phases_node(initial_state, llm, analysis).update)

\* The orders in which the updates of the nodes in S can be merged.
MergeOrders(S) ==
    {o \in [1..Cardinality(S) -> S] : \A i, j \in 1..Cardinality(S) : i # j => o[i] # o[j]}

\* The state after the updates of the evaluators in `order` are merged, each
\* evaluator having been handed `snapshot`.
RECURSIVE MergeFanOut(_, _, _, _)
MergeFanOut(state, snapshot, llm, order) ==
    IF order = <<>> THEN state
    ELSE LET n == Head(order)
             res == phase_evaluator_node(snapshot, PhaseOfEvaluator(n), llm[n])
         IN  MergeFanOut(MergeUpdate(state, res.update), snapshot, llm, Tail(order))

FanOutInit ==
    /\ rt = RouteIdle
    /\ ev = EvalIdle("unused")
    /\ pr = ProposalIdle("unused")
    /\ \E llm \in LLMOutcomes, analysis \in WorkflowAnalyses :
          fn = [op |-> "extracted",
                args |-> [state |-> Extracted(llm, analysis), llm |-> <<>>,
                          first |-> <<>>, second |-> <<>>],
                result |-> [first |-> GraphState(None), second |-> GraphState(None)]]

FanOut ==
    /\ fn.op = "extracted"
    /\ LET state  == fn.args.state
           routed == SeqToSet(route_after_phase_extraction(state))
       IN  \E llm \in [routed -> LLMOutcomes], first \in MergeOrders(routed),
              second \in MergeOrders(routed) :
              fn' = [op |-> "merged",
                     args |-> [state |-> state, llm |-> llm,
                               first |-> first, second |-> second],
                     result |-> [first  |-> MergeFanOut(state, state, llm, first),
                                 second |-> MergeFanOut(state, state, llm, second)]]
    /\ UNCHANGED <<ev, rt, pr>>

FanOutNext == FanOut

FanOutSpec == FanOutInit /\ [][FanOutNext]_vars

\* C17: the evaluators of one fan-out leave the same phase_evaluations, in
\* the same order, and the same error, in whichever order their updates are
\* merged.
C17_MergeOrderIndependent ==
    fn.op = "merged" =>
        /\ fn.result.first.phase_evaluations = fn.result.second.phase_evaluations
        /\ fn.result.first.error = fn.result.second.error

(***************************************************************************)
(* What evaluate_document returns (EvalSpec)                               *)
(***************************************************************************)
\* C18: no exception leaves evaluate_document, and for a file whose extension
\* is not supported or whose content cannot be read it returns success False,
\* an error message and partial_results None, no node having run.
C18_ParseFailureReturned ==
    /\ ev.status = "done" => ~ev.result.raised
    /\ (ev.status # "idle" /\ parse_document(ev.file).raised) =>
          /\ ev.status = "done"
          /\ ev.result.success = FALSE
          /\ ev.result.error # NoError
          /\ ev.result.partial_results = None
          /\ ev.incoming.node = "none"
          /\ ev.state = GraphState(None)

\* evaluate_document has returned for a .pdf file that the reader rejects.
C18_Witness ==
    /\ ev.status = "done"
    /\ ev.file = [extension |-> ".pdf", readable |-> FALSE]
    /\ ev.result.error = <<"Evaluation failed", "">>

(***************************************************************************)
(* evaluate_document's return value as a function of the final state       *)
(*                                                                         *)
(* OutcomeSpec hands lines 153-192 any final state graph.invoke can return:*)
(* every field empty or filled, with or without an error.                  *)
(***************************************************************************)
FinalStates ==
    [parsed_document   : {None, ParsedDocument({"filename"})},
     phase_contents    : {<<>>, <<PhaseContent(STRATEGISE_AND_PLAN, "content", 8)>>},
     phase_evaluations : {<<>>, <<PhaseEvaluation(STRATEGISE_AND_PLAN)>>,
                          <<PhaseEvaluation(STRATEGISE_AND_PLAN),
                            PhaseEvaluation(MIGRATE_AND_MODERNISE)>>},
     spec_compliance   : {None, SpecCompliance},
     gaps              : {<<>>, <<"gap">>},
     recommendations   : {<<>>, <<"recommendation">>},
     evaluation_result : {None, Some([phase_evaluations |->
                                         <<PhaseEvaluation(STRATEGISE_AND_PLAN)>>])},
     error             : {NoError, <<"Error in SpecChecker agent", "spec_checker">>}]

OutcomeInit ==
    /\ rt = RouteIdle
    /\ ev = EvalIdle("unused")
    /\ pr = ProposalIdle("unused")
    /\ \E final_state \in FinalStates :
          fn = [op |-> "invoked", args |-> [final_state |-> final_state],
                result |-> NoResult]

ReturnOutcome ==
    /\ fn.op = "invoked"
    /\ fn' = [fn EXCEPT !.op = "returned",
                        !.result = evaluate_document(EvaluationOutcome(fn.args.final_state))]
    /\ UNCHANGED <<ev, rt, pr>>

OutcomeNext == ReturnOutcome

OutcomeSpec == OutcomeInit /\ [][OutcomeNext]_vars

\* C19: evaluate_document returns success True only for a final state whose
\* error is null and whose evaluation_result is set; for a final state with an
\* error it returns success False, that error, and the partial results: which
\* fields are set and how many entries each list holds.
C19_SuccessOnlyWhenComplete ==
    fn.op = "returned" =>
        LET s == fn.args.final_state
            r == fn.result
        IN  /\ r.success => (s.error = NoError /\ s.evaluation_result # None)
            /\ s.error # NoError =>
                  /\ r.success = FALSE
                  /\ r.error = s.error
                  /\ r.evaluation_result = None
                  /\ r.partial_results # None
                  /\ r.partial_results[1].document_parsed = (s.parsed_document # None)
                  /\ r.partial_results[1].phase_contents_extracted = Len(s.phase_contents)
                  /\ r.partial_results[1].phases_evaluated = Len(s.phase_evaluations)
                  /\ r.partial_results[1].compliance_checked = (s.spec_compliance # None)
                  /\ r.partial_results[1].gaps_identified = Len(s.gaps)
                  /\ r.partial_results[1].recommendations_generated = Len(s.recommendations)

\* A final state that holds both an error and an evaluation_result, with two
\* phases evaluated: the error is returned.
C19_Witness ==
    /\ fn.op = "returned"
    /\ fn.args.final_state.error # NoError
    /\ fn.args.final_state.evaluation_result # None
    /\ Len(fn.args.final_state.phase_evaluations) = 2
    /\ fn.result.success = FALSE
    /\ fn.result.partial_results[1].phases_evaluated = 2

(***************************************************************************)
(* What generate_proposal returns (PropSpec)                               *)
(***************************************************************************)
\* C20: no exception leaves generate_proposal; it returns success True exactly
\* when graph.invoke returned a final state whose errors list is empty, and
\* otherwise (a node appended an error, or an exception ended the run) it
\* returns success False with a non-empty errors list.
C20_SuccessIffNoErrors ==
    pr.status = "done" =>
        /\ ~pr.result.raised
        /\ pr.result.success <=> (Returned /\ pr.state.errors = <<>>)
        /\ ~pr.result.success => pr.result.errors # <<>>

(***************************************************************************)
(* The feedback predicates as functions of the state                       *)
(* (src/graph/proposal_generation_graph.py, lines 22-57)                   *)
(*                                                                         *)
(* FeedbackSpec hands should_replan_waves and should_reclassify_strategies *)
(* any ProposalState a caller can build from the declared fields they or   *)
(* the repository's tests look at: migration_strategies, feedback_loops    *)
(* and sprint_estimates.  ProposalState declares no effort_estimates.      *)
(***************************************************************************)
\* SprintEstimate, by its total_sprints.
SprintEstimate(total_sprints) == [total_sprints |-> total_sprints]

FeedbackStates ==
    {[ProposalState EXCEPT !.migration_strategies = strategies,
                           !.feedback_loops = loops]
         @@ [sprint_estimates |-> estimates] :
       strategies \in {"none", "str", "enum", "dicts_complex"},
       loops \in {<<>>, <<"modernisation_upgrade">>,
                  <<"strategy_reclassification", "modernisation_upgrade">>},
       estimates \in {<<>>, <<SprintEstimate(3)>>, <<SprintEstimate(25)>>,
                      <<SprintEstimate(3), SprintEstimate(25)>>}}

FeedbackInit ==
    /\ rt = RouteIdle
    /\ ev = EvalIdle("unused")
    /\ pr = ProposalIdle("unused")
    /\ \E state \in FeedbackStates :
          fn = [op |-> "state", args |-> [state |-> state], result |-> FALSE]

ShouldReplanWaves ==
    /\ fn.op = "state"
    /\ fn' = [fn EXCEPT !.op = "should_replan_waves",
                        !.result = should_replan_waves(fn.args.state)]
    /\ UNCHANGED <<ev, rt, pr>>

ShouldReclassifyStrategies ==
    /\ fn.op = "state"
    /\ fn' = [fn EXCEPT !.op = "should_reclassify_strategies",
                        !.result = should_reclassify_strategies(fn.args.state)]
    /\ UNCHANGED <<ev, rt, pr>>

FeedbackNext == ShouldReplanWaves \/ ShouldReclassifyStrategies

FeedbackSpec == FeedbackInit /\ [][FeedbackNext]_vars

\* C21: should_replan_waves returns True for every state whose feedback_loops
\* contains "modernisation_upgrade".
C21_ReplanAfterUpgrade ==
    (/\ fn.op = "should_replan_waves"
     /\ "modernisation_upgrade" \in SeqToSet(fn.args.state.feedback_loops))
        => fn.result = TRUE

\* C22: should_reclassify_strategies returns True for every state whose
\* sprint_estimates holds an estimate of 25 sprints or more.
C22_ReclassifyOnHighEffort ==
    (/\ fn.op = "should_reclassify_strategies"
     /\ \E i \in 1..Len(fn.args.state.sprint_estimates) :
           fn.args.state.sprint_estimates[i].total_sprints >= 25)
        => fn.result = TRUE

(***************************************************************************)
(* A run of the evaluation workflow in which every call answers (EvalSpec) *)
(***************************************************************************)
\* C23: when the document is parsed and every LLM call of the run returned
\* the JSON it was asked for (a phase above the threshold, a gap, a
\* recommendation), the run ends after scoring with a null error and
\* evaluate_document returns success True with an evaluation_result.
C23_CompleteRunSucceeds ==
    (ev.status = "done" /\ ~parse_document(ev.file).raised /\ ev.answered) =>
        /\ ev.incoming.node = "scoring"
        /\ ev.state.error = NoError
        /\ ev.result.success
        /\ ev.result.evaluation_result # None

(***************************************************************************)
(* The fields written by the nodes of one fan-out step                     *)
(*                                                                         *)
(* WriteSpec takes a state extract_intent_and_phases can leave and a state *)
(* classify_workloads can leave, lets every node the edges start from      *)
(* there answer, and keeps for each node the keys of the update it         *)
(* returns.                                                                *)
(***************************************************************************)
\* The keys of an evaluation node's returned dictionary.
UpdateKeys(update) == {k \in DOMAIN update : update[k] # NoUpdate[k]}

\* The state after parse_input and classify_workloads.
Classified(parsed, llm) ==
    LET after_parse == MergeProposal(ProposalState,
                           parse_discovery_input(ProposalState, parsed).update)
    IN  MergeProposal(after_parse, classify_workloads(after_parse, llm).update)

\* The update of one of the nodes classify_workloads's edges start.
ProposalFanOutUpdate(n, state, llm) ==
    CASE n = "generate_overview"      -> generate_overview(state, llm).update
      [] n = "generate_scope"         -> generate_scope(state, llm).update
      [] n = "wave_planning"          -> plan_migration_waves(state, llm).update
      [] n = "migration_strategy_6rs" -> classify_migration_strategies(state, llm).update

NoWrites == [n \in {} |-> {}]

WriteInit ==
    /\ rt = RouteIdle
    /\ ev = EvalIdle("unused")
    /\ pr = ProposalIdle("unused")
    /\ \E llm \in LLMOutcomes, analysis \in WorkflowAnalyses,
          parsed \in {"data", "none", "raise"}, answer \in {"some", "none", "raise"} :
          fn = [op |-> "snapshot",
                args |-> [evaluation |-> Extracted(llm, analysis),
                          proposal |-> Classified(parsed, answer)],
                result |-> NoWrites]

EvaluatorsWrite ==
    /\ fn.op = "snapshot"
    /\ LET state  == fn.args.evaluation
           routed == SeqToSet(route_after_phase_extraction(state))
       IN  \E llm \in [routed -> LLMOutcomes] :
              fn' = [fn EXCEPT !.op = "evaluators",
                               !.result = [n \in routed |->
                                   UpdateKeys(phase_evaluator_node(
                                       state, PhaseOfEvaluator(n), llm[n]).update)]]
    /\ UNCHANGED <<ev, rt, pr>>

ProposalFanOutWrite ==
    /\ fn.op = "snapshot"
    /\ LET state   == fn.args.proposal
           started == ProposalEdges("classify_workloads")
       IN  \E llm \in [started -> LLMOutcomes] :
              fn' = [fn EXCEPT !.op = "proposal_fan_out",
                               !.result = [n \in started |->
                                   DOMAIN ProposalFanOutUpdate(n, state, llm[n])]]
    /\ UNCHANGED <<ev, rt, pr>>

WriteNext == EvaluatorsWrite \/ ProposalFanOutWrite

WriteSpec == WriteInit /\ [][WriteNext]_vars

\* C24: the phase evaluators of one step write only phase_evaluations and
\* error; of generate_overview, generate_scope, wave_planning and
\* migration_strategy_6rs no two write the same key, errors excepted.
C24_FanOutWritesDisjoint ==
    /\ fn.op = "evaluators" =>
          \A n \in DOMAIN fn.result : fn.result[n] \subseteq {"phase_evaluations", "error"}
    /\ fn.op = "proposal_fan_out" =>
          \A n, m \in DOMAIN fn.result :
              n # m => (fn.result[n] \cap fn.result[m]) \subseteq {"errors"}

\* Two evaluators ran in one step, one wrote phase_evaluations and the other
\* error.
C24_Witness ==
    /\ fn.op = "evaluators"
    /\ fn.result = [n \in {"strategise_and_plan_evaluator",
                           "migrate_and_modernise_evaluator"} |->
                       IF n = "strategise_and_plan_evaluator"
                       THEN {"phase_evaluations"} ELSE {"error"}]

(***************************************************************************)
(* The join of the phase evaluators at spec_checker (EvalSpec)             *)
(***************************************************************************)
\* The positions of node n among the nodes that have returned.
Positions(n) == {i \in 1..Len(ev.ran) : ev.ran[i] = n}

\* The evaluators route_after_phase_extraction selected in this run.
Selected == {n \in Evaluators : Positions(n) # {}} \cup (ev.active \cap Evaluators)

\* What evaluate_document reports as phases_evaluated.
ReportedPhases ==
    IF ev.result.success THEN ev.result.phases_evaluated
    ELSE ev.result.partial_results[1].phases_evaluated

\* C25: spec_checker runs at most once, exactly once in a run that has ended,
\* and every selected evaluator has returned, once, before it; when none of
\* them returned an error, phase_evaluations holds one PhaseEvaluation per
\* selected evaluator from then on, and evaluate_document reports that count.
C25_SpecCheckerJoinsEvaluators ==
    LET checked == Positions("spec_checker")
        pes     == ev.state.phase_evaluations
    IN  /\ Cardinality(checked) <= 1
        /\ (ev.status = "done" /\ ~parse_document(ev.file).raised)
              => Cardinality(checked) = 1
        /\ checked # {} =>
              /\ ev.active \cap Evaluators = {}
              /\ Selected # {}
              /\ \A n \in Selected :
                    /\ Cardinality(Positions(n)) = 1
                    /\ \A i \in Positions(n), j \in checked : i < j
              /\ (\A n \in Selected : \E i \in 1..Len(pes) : pes[i].phase = PhaseOfEvaluator(n))
                    => /\ Len(pes) = Cardinality(Selected)
                       /\ ev.status = "done" => ReportedPhases = Cardinality(Selected)

\* A run has ended in which two evaluators were selected and neither failed:
\* two phases are reported.
C25_Witness ==
    /\ ev.status = "done"
    /\ Cardinality(Selected) = 2
    /\ Len(ev.state.phase_evaluations) = 2
    /\ Positions("spec_checker") # {}
    /\ ReportedPhases = 2

(***************************************************************************)
(* The phase_contents extract_intent_and_phases returns (ExtractRouteSpec) *)
(***************************************************************************)
\* C26: when extract_intent_and_phases has succeeded, phase_contents holds
\* exactly one PhaseContent for each MigrationPhase, whichever stages the
\* LLM's analysis names and whichever of their fields are missing or out of
\* range.
C26_OnePhaseContentPerPhase ==
    (rt.mode # "analysis" /\ rt.state.error = NoError) =>
        LET pcs == rt.state.phase_contents
        IN  /\ Len(pcs) = Cardinality(Phases)
            /\ \A p \in Phases :
                  Cardinality({i \in 1..Len(pcs) : pcs[i].phase = p}) = 1

\* The analysis names two stages, one without relevant_content and one with
\* a score out of range: all three phases are filled in.
C26_Witness ==
    /\ rt.mode # "analysis"
    /\ Len(rt.analysis) = 2
    /\ rt.analysis[1].relevant_content = MissingKey
    /\ rt.analysis[2].confidence_score = 12
    /\ Len(rt.state.phase_contents) = 3
    /\ \A i \in 1..3 : rt.state.phase_contents[i].confidence_score = 0

\* ---------------------------------------------------------------------------
\* app.py: the Streamlit session cache of evaluation results.
\* ---------------------------------------------------------------------------

\* EvaluationType, src/models/evaluation_types.py lines 10-14.
EvaluationTypes == {"migration_proposal", "statement_of_work", "proposal_generator"}

\* The files a user can put in the uploader: a name and the bytes.  The empty
\* content is the file run_evaluation_core refuses.
FileNames == {"plan.txt", "plan.pdf"}
FileContents == {"", "X", "Y"}
UploadedFiles == [name : FileNames, content : FileContents]

\* hashlib.md5(file_content).hexdigest(), line 372: a digest of the bytes alone,
\* different for the different contents of FileContents.
md5(content) ==
    CASE content = ""  -> "d41d8cd9"
      [] content = "X" -> "02129bb8"
      [] content = "Y" -> "57cec413"

DisplayOptions == {"detailed_analysis", "phase_breakdown", "recommendations"}

\* st.session_state after the initialisation of main, lines 141-148.
SessionState ==
    [evaluation_result |-> None, evaluation_metadata |-> None,
     last_file_hash |-> None, last_eval_type |-> None]

\* The dictionaries run_evaluation_core returns, lines 419-541: None for an
\* empty file, the evaluator's dictionary otherwise, and a failure dictionary
\* when an exception is caught.  The statement-of-work branch wraps the mock
\* result in a success dictionary.  of names the call that computed the
\* dictionary.
CoreSuccess(uploaded_file, eval_type) ==
    Some([success |-> TRUE, of |-> [file |-> uploaded_file, eval_type |-> eval_type]])

CoreFailure(uploaded_file, eval_type) ==
    Some([success |-> FALSE, of |-> [file |-> uploaded_file, eval_type |-> eval_type]])

run_evaluation_core(uploaded_file, eval_type) ==
    IF uploaded_file.content = ""
    THEN {None}
    ELSE IF eval_type = "statement_of_work"
    THEN {CoreSuccess(uploaded_file, eval_type)}
    ELSE {CoreSuccess(uploaded_file, eval_type), CoreFailure(uploaded_file, eval_type)}

\* A faulty variant of need_evaluation: the evaluation type is not compared.
need_evaluation_any_type(session, file_hash, eval_type) ==
    \/ session.evaluation_result = None
    \/ session.last_file_hash # Some(file_hash)

\* need_evaluation, lines 375-379.
need_evaluation(session, file_hash, eval_type) ==
    \/ session.evaluation_result = None
    \/ session.last_file_hash # Some(file_hash)
    \/ session.last_eval_type # Some(eval_type)

\* What one script run leaves: the session state, whether run_evaluation_core
\* was called, and the result handed to a display function.
RunOutcome(session, evaluated, displayed) ==
    [session |-> session, evaluated |-> evaluated, displayed |-> displayed]

\* A faulty variant of run_evaluation_with_cache: every dictionary returned is
\* cached, failed ones included.
run_evaluation_with_cache_all(session, uploaded_file, eval_type, result) ==
    LET file_hash == md5(uploaded_file.content)
    IN  IF need_evaluation(session, file_hash, eval_type)
        THEN IF result # None
             THEN RunOutcome([session EXCEPT !.evaluation_result = result,
                                             !.last_file_hash = Some(file_hash),
                                             !.last_eval_type = Some(eval_type)],
                             TRUE, result)
             ELSE RunOutcome([session EXCEPT !.evaluation_result = None], TRUE, None)
        ELSE RunOutcome(session, FALSE, session.evaluation_result)

\* run_evaluation_with_cache, lines 366-416; result is what run_evaluation_core
\* returns if it is called.
run_evaluation_with_cache(session, uploaded_file, eval_type, result) ==
    LET file_hash == md5(uploaded_file.content)
    IN  IF need_evaluation(session, file_hash, eval_type)
        THEN IF result # None /\ result[1].success
             THEN RunOutcome([session EXCEPT !.evaluation_result = result,
                                             !.last_file_hash = Some(file_hash),
                                             !.last_eval_type = Some(eval_type)],
                             TRUE, result)
             ELSE RunOutcome([session EXCEPT !.evaluation_result = None], TRUE, None)
        ELSE RunOutcome(session, FALSE, session.evaluation_result)

\* main from the upload test on, lines 351-363.
main(session, widgets, result) ==
    IF widgets.uploaded_file # None
    THEN run_evaluation_with_cache(session, widgets.uploaded_file[1],
                                   widgets.eval_type, result)
    ELSE RunOutcome(IF session.evaluation_result # None THEN SessionState ELSE session,
                    FALSE, None)

\* One script run after the interaction op has set the widgets.
ScriptRun(op, widgets) ==
    \E result \in (IF widgets.uploaded_file = None THEN {None}
                   ELSE run_evaluation_core(widgets.uploaded_file[1], widgets.eval_type)) :
        LET run == main(fn.session, widgets, result)
        IN  fn' = [op |-> op, widgets |-> widgets, session |-> run.session,
                   evaluated |-> run.evaluated, displayed |-> run.displayed,
                   rerun |-> FALSE]

\* The first script run of a session: nothing uploaded, every option ticked.
CacheInit ==
    /\ rt = RouteIdle
    /\ ev = EvalIdle("unused")
    /\ pr = ProposalIdle("unused")
    /\ \E eval_type \in EvaluationTypes :
          fn = [op |-> "start",
                widgets |-> [uploaded_file |-> None, eval_type |-> eval_type,
                             show |-> DisplayOptions],
                session |-> SessionState, evaluated |-> FALSE, displayed |-> None,
                rerun |-> FALSE]

\* st.file_uploader, lines 201-205: a file is put in, or replaces the one there.
Upload ==
    /\ ~fn.rerun
    /\ \E file \in UploadedFiles :
          /\ fn.widgets.uploaded_file # Some(file)
          /\ ScriptRun("upload", [fn.widgets EXCEPT !.uploaded_file = Some(file)])
    /\ UNCHANGED <<ev, rt, pr>>

\* The uploader is emptied.
RemoveFile ==
    /\ ~fn.rerun
    /\ fn.widgets.uploaded_file # None
    /\ ScriptRun("remove", [fn.widgets EXCEPT !.uploaded_file = None])
    /\ UNCHANGED <<ev, rt, pr>>

\* Another evaluation type is selected in the sidebar.
SelectEvaluationType ==
    /\ ~fn.rerun
    /\ \E eval_type \in EvaluationTypes \ {fn.widgets.eval_type} :
          ScriptRun("select_type", [fn.widgets EXCEPT !.eval_type = eval_type])
    /\ UNCHANGED <<ev, rt, pr>>

\* One of the display checkboxes, lines 330-335, is ticked or unticked.
ToggleDisplayOption ==
    /\ ~fn.rerun
    /\ fn.widgets.uploaded_file # None
    /\ \E option \in DisplayOptions :
          ScriptRun("toggle_display",
                    [fn.widgets EXCEPT !.show =
                        IF option \in @ THEN @ \ {option} ELSE @ \cup {option}])
    /\ UNCHANGED <<ev, rt, pr>>

\* The re-run button, lines 340-345: the cache is cleared and st.rerun() ends
\* this script run before anything is evaluated or displayed.
ClickRerun ==
    /\ ~fn.rerun
    /\ fn.widgets.uploaded_file # None
    /\ fn' = [fn EXCEPT !.op = "click_rerun",
                        !.session = [@ EXCEPT !.evaluation_result = None,
                                              !.last_file_hash = None,
                                              !.last_eval_type = None],
                        !.evaluated = FALSE, !.displayed = None, !.rerun = TRUE]
    /\ UNCHANGED <<ev, rt, pr>>

\* The script run st.rerun() asked for.
Rerun ==
    /\ fn.rerun
    /\ ScriptRun("rerun", fn.widgets)
    /\ UNCHANGED <<ev, rt, pr>>

CacheNext ==
    \/ Upload
    \/ RemoveFile
    \/ SelectEvaluationType
    \/ ToggleDisplayOption
    \/ ClickRerun
    \/ Rerun

CacheSpec == CacheInit /\ [][CacheNext]_vars

\* C27: a script run with a file uploaded evaluates exactly when nothing is
\* cached, or the file's content hash is not last_file_hash, or the evaluation
\* type is not last_eval_type; a run after a change of display options alone,
\* with a result cached, evaluates nothing, leaves the session as it was and
\* displays the cached result.
C27_EvaluatesExactlyOnCacheMiss ==
    [][/\ (fn'.op # "click_rerun" /\ fn'.widgets.uploaded_file # None) =>
             (fn'.evaluated <=>
                 \/ fn.session.evaluation_result = None
                 \/ fn.session.last_file_hash #
                        Some(md5(fn'.widgets.uploaded_file[1].content))
                 \/ fn.session.last_eval_type # Some(fn'.widgets.eval_type))
       /\ (fn'.op = "toggle_display" /\ fn.session.evaluation_result # None) =>
             /\ ~fn'.evaluated
             /\ fn'.session = fn.session
             /\ fn'.displayed = fn.session.evaluation_result]_vars

\* A display option was changed while a result was cached, and the cached
\* result is displayed without an evaluation.
C27_Witness ==
    /\ fn.op = "toggle_display"
    /\ ~fn.evaluated
    /\ fn.displayed # None
    /\ fn.displayed = fn.session.evaluation_result

\* C28: the cached result is never a failed one; when one is cached,
\* last_file_hash and last_eval_type are the content hash and the type of the
\* call that computed it; a displayed result was computed from the content of
\* the file now uploaded and for the evaluation type now selected.
C28_CacheBelongsToUpload ==
    /\ fn.session.evaluation_result # None =>
          LET result == fn.session.evaluation_result[1]
          IN  /\ result.success
              /\ fn.session.last_file_hash = Some(md5(result.of.file.content))
              /\ fn.session.last_eval_type = Some(result.of.eval_type)
    /\ fn.displayed # None =>
          /\ fn.widgets.uploaded_file # None
          /\ fn.displayed[1].success
          /\ fn.displayed[1].of.file.content = fn.widgets.uploaded_file[1].content
          /\ fn.displayed[1].of.eval_type = fn.widgets.eval_type

\* The statement of C28 with the file taken whole, its name included: a
\* displayed result was computed from the very file now uploaded.
C28_DisplayedFromUploadedFile ==
    fn.displayed # None =>
        /\ fn.widgets.uploaded_file # None
        /\ fn.displayed[1].of.file = fn.widgets.uploaded_file[1]
        /\ fn.displayed[1].of.eval_type = fn.widgets.eval_type

\* A file with the content of the one evaluated before, under another name,
\* has replaced it, and the result cached for the first is displayed.
C28_Witness ==
    /\ fn.op = "upload"
    /\ ~fn.evaluated
    /\ fn.displayed # None
    /\ fn.displayed = fn.session.evaluation_result
    /\ fn.displayed[1].of.file.name # fn.widgets.uploaded_file[1].name

\* ---------------------------------------------------------------------------
\* agents/wave_planner.py: the fallback wave plan and the wave sequence.
\* ---------------------------------------------------------------------------

MaxWorkloads == 3
MaxWaves == 3

\* The classified workloads handed to the planner: dictionaries with a name, a
\* complexity and a migration_readiness.
ClassifiedWorkloads ==
    [name : {"app1", "app2", "app3"},
     complexity : {"Low", "High"},
     migration_readiness : {"Ready", "Needs Assessment"}]

\* str.lower() on the values above.
lower(text) ==
    CASE text = "Low"              -> "low"
      [] text = "High"             -> "high"
      [] text = "Ready"            -> "ready"
      [] text = "Needs Assessment" -> "needs assessment"

\* The test of line 180: "ready" in migration_readiness and complexity == "low".
IsDiscoveryReady(workload) ==
    /\ lower(workload.migration_readiness) \in {"ready"}
    /\ lower(workload.complexity) = "low"

\* The names listed as a wave's applications.
ApplicationNames(workloads) == [k \in DOMAIN workloads |-> workloads[k].name]

FallbackWave(wave_number, name, workloads) ==
    [wave_number |-> wave_number, name |-> name,
     applications |-> ApplicationNames(workloads)]

\* _create_fallback_wave_plan, lines 169-332.
_create_fallback_wave_plan(classified_workloads) ==
    LET discovery_ready == SelectSeq(classified_workloads,
                                     LAMBDA w : IsDiscoveryReady(w))
        needs_discovery == SelectSeq(classified_workloads,
                                     LAMBDA w : ~IsDiscoveryReady(w))
        half == Len(needs_discovery) \div 2
        discovery_batch_1 ==
            IF needs_discovery # <<>> THEN SubSeq(needs_discovery, 1, half) ELSE <<>>
        discovery_batch_2 ==
            IF Len(needs_discovery) > 1
            THEN SubSeq(needs_discovery, half + 1, Len(needs_discovery))
            ELSE <<>>
        waves ==
            (IF discovery_ready # <<>>
             THEN <<FallbackWave(1, "Discovery-Ready Migration", discovery_ready)>>
             ELSE <<>>)
            \o (IF discovery_batch_1 # <<>>
                THEN <<FallbackWave(2, "Discovery Track - Batch 1", discovery_batch_1),
                       FallbackWave(3, "Delivery Track - Batch 1", discovery_batch_1)>>
                ELSE <<>>)
            \o (IF discovery_batch_2 # <<>>
                THEN <<FallbackWave(4, "Discovery Track - Complex Systems",
                                    discovery_batch_2),
                       FallbackWave(5, "Delivery Track - Complex Systems",
                                    discovery_batch_2)>>
                ELSE <<>>)
    IN  [methodology |-> "Dual-Track Agile Delivery",
         total_waves |-> Len(waves),
         waves |-> waves]

\* WaveGroup, models/proposal_generation.py lines 77-86: the fields the
\* sequence reads, and the name that tells one wave from another.
WaveNumbers == 1 .. 3
DependencyLists == {<<>>, <<1>>, <<2>>, <<3>>, <<1, 3>>, <<3, 1>>}
WaveGroup(name, wave_number, dependencies) ==
    [name |-> name, wave_number |-> wave_number, dependencies |-> dependencies]

\* sorted(wave_groups, key=lambda w: w.wave_number): waves of one number keep
\* their order.
sorted(wave_groups) ==
    LET rank(k) ==
            Cardinality({m \in DOMAIN wave_groups :
                \/ wave_groups[m].wave_number < wave_groups[k].wave_number
                \/ /\ wave_groups[m].wave_number = wave_groups[k].wave_number
                   /\ m <= k})
    IN  [p \in DOMAIN wave_groups |->
            wave_groups[CHOOSE k \in DOMAIN wave_groups : rank(k) = p]]

\* Lines 402-404: the waves after wave i that are not later than it are put
\* behind it.
UpdateSubsequent(sorted_waves, i) ==
    [j \in DOMAIN sorted_waves |->
        IF j > i /\ sorted_waves[j].wave_number <= sorted_waves[i].wave_number
        THEN [sorted_waves[j] EXCEPT
                 !.wave_number = sorted_waves[i].wave_number + (j - i)]
        ELSE sorted_waves[j]]

\* Lines 396-404, from the d-th dependency of wave i on; the wave numbers are
\* assigned in place.
RECURSIVE ValidateDependencyOrder(_, _, _)
ValidateDependencyOrder(sorted_waves, i, d) ==
    IF i > Len(sorted_waves)
    THEN sorted_waves
    ELSE IF d > Len(sorted_waves[i].dependencies)
    THEN ValidateDependencyOrder(sorted_waves, i + 1, 1)
    ELSE LET dep_wave_num == sorted_waves[i].dependencies[d]
         IN  IF dep_wave_num >= sorted_waves[i].wave_number
             THEN ValidateDependencyOrder(
                      UpdateSubsequent(
                          [sorted_waves EXCEPT ![i].wave_number = dep_wave_num + 1], i),
                      i, d + 1)
             ELSE ValidateDependencyOrder(sorted_waves, i, d + 1)

\* A faulty variant of optimise_wave_sequence: the waves are sorted and no
\* dependency is looked at.
optimise_wave_sequence_sorted_only(wave_groups) ==
    sorted(wave_groups)

\* optimise_wave_sequence, lines 384-408.
optimise_wave_sequence(wave_groups) ==
    sorted(ValidateDependencyOrder(sorted(wave_groups), 1, 1))

\* Lists of up to max elements of S.
ListsOf(S, max) == UNION {[1 .. n -> S] : n \in 0 .. max}

WaveInit ==
    /\ rt = RouteIdle
    /\ ev = EvalIdle("unused")
    /\ pr = ProposalIdle("unused")
    /\ \/ \E classified_workloads \in ListsOf(ClassifiedWorkloads, MaxWorkloads) :
             fn = [op |-> "workloads", args |-> classified_workloads, result |-> <<>>]
       \/ \E waves \in ListsOf(WaveNumbers \X DependencyLists, MaxWaves) :
             fn = [op |-> "waves",
                   args |-> [k \in DOMAIN waves |->
                                WaveGroup(k, waves[k][1], waves[k][2])],
                   result |-> <<>>]

\* plan_migration_waves, lines 38-43: the fallback plan of a non-empty list.
CreateFallbackWavePlan ==
    /\ fn.op = "workloads"
    /\ fn.args # <<>>
    /\ fn' = [fn EXCEPT !.op = "fallback_wave_plan",
                        !.result = _create_fallback_wave_plan(fn.args)]
    /\ UNCHANGED <<ev, rt, pr>>

OptimiseWaveSequence ==
    /\ fn.op = "waves"
    /\ fn' = [fn EXCEPT !.op = "optimised",
                        !.result = optimise_wave_sequence(fn.args)]
    /\ UNCHANGED <<ev, rt, pr>>

WaveNext == CreateFallbackWavePlan \/ OptimiseWaveSequence

WaveSpec == WaveInit /\ [][WaveNext]_vars

\* C29: the fallback plan of a non-empty list of classified workloads lists
\* every workload's name among the applications of at least one wave.
C29_EveryWorkloadInAWave ==
    fn.op = "fallback_wave_plan" =>
        \A k \in DOMAIN fn.args :
            \E w \in DOMAIN fn.result.waves :
                \E a \in DOMAIN fn.result.waves[w].applications :
                    fn.result.waves[w].applications[a] = fn.args[k].name

\* C30: optimise_wave_sequence returns the waves it was given, each with its
\* name and dependencies, in ascending order of wave_number, and every wave's
\* wave_number is greater than each number in its dependencies.
C30_SortedAfterDependencies ==
    fn.op = "optimised" =>
        /\ Len(fn.result) = Len(fn.args)
        /\ {<<fn.result[k].name, fn.result[k].dependencies>> : k \in DOMAIN fn.result}
              = {<<fn.args[k].name, fn.args[k].dependencies>> : k \in DOMAIN fn.args}
        /\ \A k \in DOMAIN fn.result :
              /\ k > 1 => fn.result[k - 1].wave_number <= fn.result[k].wave_number
              /\ \A d \in DOMAIN fn.result[k].dependencies :
                    fn.result[k].wave_number > fn.result[k].dependencies[d]

\* Three waves were given out of order, one of them depending on a wave that
\* was not earlier, and a wave after it was renumbered.
C30_Witness ==
    /\ fn.op = "optimised"
    /\ Len(fn.args) = 3
    /\ fn.args[1].wave_number > fn.args[2].wave_number
    /\ \E k \in DOMAIN fn.args :
          /\ \E d \in DOMAIN fn.args[k].dependencies :
                fn.args[k].dependencies[d] >= fn.args[k].wave_number
          /\ \E m \in DOMAIN fn.args :
                /\ fn.args[m].dependencies = <<>>
                /\ \E r \in DOMAIN fn.result :
                      /\ fn.result[r].name = fn.args[m].name
                      /\ fn.result[r].wave_number > fn.args[m].wave_number

====
